---- MODULE Spec2Model ----
(***************************************************************************)
(* Model of db2ice: the DB2 DDL parser (parser.py), the DB2 -> Iceberg     *)
(* type mapper (mapper.py), the assessor (assessor.py), the DB2 converter  *)
(* (converter.py) and the Snowflake converter (snowflake_converter.py).    *)
(*                                                                         *)
(* Text is modelled as a sequence of tokens.  A token is one punctuation   *)
(* character, one whitespace character, or one maximal run of the          *)
(* characters ["\w] (a word).  The character loops of the source see a     *)
(* word as a run of characters none of which is special to them, so they   *)
(* are translated one token per iteration.  Regular expressions are        *)
(* translated to matchers over tokens; substring tests on a word are the   *)
(* tables HasPrefix / HasSuffix below.                                     *)
(***************************************************************************)
EXTENDS Integers, Sequences, FiniteSets, TLC

VARIABLES
    script,            \* the statements the input is made of, terminators included
    ddl,               \* the input script handed to the public operation
    include_ewi,       \* converter configuration (constructor argument)
    include_comments,  \* converter configuration (constructor argument)
    called,            \* the public operation that has run on ddl
    statements,        \* value returned by DB2Parser._split_statements
    parser,            \* DB2Parser instance after parse: tables, errors, warnings
    report,            \* AssessmentReport returned by Assessor.assess
    result,            \* ConversionResult returned by DB2IceConverter.convert
    sf_result,         \* SnowflakeToIcebergResult returned by the Snowflake converter
    mapped_column,     \* Column handed to DataTypeMapper.map_type
    type_mapping,      \* TypeMapping returned by DataTypeMapper.map_type
    sf_table,          \* SnowflakeTable handed to the converter's _convert_table
    table_output,      \* what _convert_table returned: statement, EWI count, issues
    db2_table,         \* Table handed to Assessor._assess_table
    assessed,          \* db2_table assessed without and with mapped_column
    instances,         \* the long-lived DB2Parser, Assessor and DB2IceConverter objects
    returned           \* the calls made on them so far, each with the value it returned

vars == <<script, ddl, include_ewi, include_comments, called, statements, parser,
          report, result, sf_result, mapped_column, type_mapping, sf_table,
          table_output, db2_table, assessed, instances, returned>>

\* the variables of the operations on one column or one table
unit_vars == <<mapped_column, type_mapping, sf_table, table_output, db2_table,
               assessed>>

\* the variables of the calls made in sequence on the same objects
seq_vars == <<instances, returned>>

(***************************************************************************)
(* Tokens                                                                  *)
(***************************************************************************)
WS == {" ", "\n"}

Punct == {"(", ")", ",", ";", "@", "'", "\\", ".", "--", "-", "=", ">", "<"}

IsWS(t) == t \in WS

\* a maximal run of ["\w] characters
IsWord(t) == t \notin WS /\ t \notin Punct

\* words of the vocabulary that properly start with, end with or enclose a
\* keyword, compared in upper case (str.startswith, "kw in s", and regex
\* literals that begin or stop inside a word)
ProperPrefix ==
    { <<"DATA_RETENTION_TIME_IN_DAYS", "DATA">>, <<"DATETIME", "DATE">>,
      <<"DECIMAL", "DEC">>, <<"DECLARE", "DEC">>, <<"FOREIGN", "FOR">>,
      <<"INTEGER", "INT">>, <<"Order", "OR">>, <<"TIMESTAMP", "TIME">>,
      <<"TIMESTAMP_LTZ", "TIMESTAMP">>, <<"TIMESTAMP_LTZ", "TIME">>,
      <<"TIMESTAMP_NTZ", "TIMESTAMP">>, <<"TIMESTAMP_NTZ", "TIME">>,
      <<"TIMESTAMP_TZ", "TIMESTAMP">>, <<"TIMESTAMP_TZ", "TIME">>,
      <<"UNIQUE_ID", "UNIQUE">> }

HasPrefix(t, kw) == t = kw \/ <<t, kw>> \in ProperPrefix

ProperSuffix ==
    { <<"CONSTRAINT", "INT">>, <<"DATETIME", "TIME">>, <<"FOR", "OR">>,
      <<"VARCHAR", "CHAR">> }

HasSuffix(t, kw) == t = kw \/ <<t, kw>> \in ProperSuffix

ProperInfix ==
    { <<"\"Order\"", "OR">>, <<"DATA_RETENTION_TIME_IN_DAYS", "TIME">>,
      <<"FOREIGN", "OR">>, <<"TEMPORARY", "OR">> }

\* "kw in s" restricted to one word
Contains(t, kw) == HasPrefix(t, kw) \/ HasSuffix(t, kw) \/ <<t, kw>> \in ProperInfix

\* str.strip(): leading and trailing whitespace removed
RECURSIVE LStrip(_)
LStrip(s) == IF s # <<>> /\ IsWS(Head(s)) THEN LStrip(Tail(s)) ELSE s

RECURSIVE RStrip(_)
RStrip(s) ==
    IF s # <<>> /\ IsWS(s[Len(s)]) THEN RStrip(SubSeq(s, 1, Len(s) - 1)) ELSE s

Strip(s) == RStrip(LStrip(s))

\* s[from:] of Python for a 1-based position
Drop(s, from) == SubSeq(s, from, Len(s))

\* index of the first non-whitespace token at or after i (Len(s)+1 if none): \s*
RECURSIVE SkipWS(_, _)
SkipWS(s, i) == IF i <= Len(s) /\ IsWS(s[i]) THEN SkipWS(s, i + 1) ELSE i

\* the least and the greatest element of a non-empty set of positions
MinOf(S) == CHOOSE x \in S : \A y \in S : x <= y

MaxOf(S) == CHOOSE x \in S : \A y \in S : x >= y

\* Let(v, F) is F(v), the value of LET x == v IN F(x): v is evaluated at most
\* once, when F first uses it
Let(v, F(_)) == F(v)

(***************************************************************************)
(* DB2Parser._split_statements                                             *)
(***************************************************************************)
EmitStatement(stmts, current) ==
        Let(Strip(current), LAMBDA stmt :
        IF stmt # <<>> THEN Append(stmts, stmt) ELSE stmts)

\* the quote test of the three scanners: a quote toggles the string state
\* unless the character before it is a backslash
TogglesString(s, i) == s[i] = "'" /\ (i = 1 \/ s[i - 1] # "\\")

IsTerminator(char) == char \in {";", "@"}

\* TLC evaluates the arguments of an operator lazily; Strict(v, e) is e with
\* v evaluated first, which keeps the evaluation of a long loop shallow
Strict(v, e) == IF v = v THEN e ELSE e

\* one iteration of the while loop, on character s[i]
SplitStep(s, st, i) ==
        Let(s[i], LAMBDA char :
        Let(IF TogglesString(s, i) THEN ~st.in_string ELSE st.in_string, LAMBDA in_string1 :
        Let(      IF in_string1 THEN st.paren_depth
                  ELSE IF char = "(" THEN st.paren_depth + 1
                  ELSE IF char = ")" THEN st.paren_depth - 1
                  ELSE st.paren_depth, LAMBDA depth1 :
        IF IsTerminator(char) /\ ~in_string1 /\ depth1 = 0
        THEN [current |-> <<>>, in_string |-> in_string1, paren_depth |-> depth1,
              statements |-> EmitStatement(st.statements, st.current)]
        ELSE [current |-> Append(st.current, char), in_string |-> in_string1,
              paren_depth |-> depth1, statements |-> st.statements])))

\* the iterations lo..hi of the while loop, from state st
RECURSIVE SplitLoop(_, _, _, _)
SplitLoop(s, lo, hi, st) ==
    IF lo > hi THEN st
    ELSE IF lo = hi THEN SplitStep(s, st, lo)
    ELSE     Let((lo + hi) \div 2, LAMBDA mid :
             Let(SplitLoop(s, lo, mid, st), LAMBDA st1 :
             Strict(st1, SplitLoop(s, mid + 1, hi, st1))))

split_statements(s) ==
        Let(   SplitLoop(s, 1, Len(s), [current |-> <<>>, in_string |-> FALSE,
                                        paren_depth |-> 0, statements |-> <<>>]), LAMBDA end :
        EmitStatement(end.statements, end.current))

(***************************************************************************)
(* DB2Parser._strip_leading_comments                                       *)
(***************************************************************************)
\* position of the first "\n" at or after i (Len(s)+1 if none)
LineEnd(s, i) ==
        Let({j \in i..Len(s) : s[j] = "\n"}, LAMBDA hits :
        IF hits = {} THEN Len(s) + 1 ELSE MinOf(hits))

\* lines are dropped from the front while they are blank or start with "--"
RECURSIVE strip_leading_comments(_)
strip_leading_comments(stmt) ==
    IF stmt = <<>> THEN <<>>
    ELSE
          Let(LineEnd(stmt, 1), LAMBDA e :
          Let(Strip(SubSeq(stmt, 1, e - 1)), LAMBDA stripped :
          IF stripped = <<>> \/ Head(stripped) = "--"
          THEN IF e > Len(stmt) THEN <<>>
               ELSE strip_leading_comments(Drop(stmt, e + 1))
          ELSE stmt))

(***************************************************************************)
(* DB2Parser._find_matching_paren: 0 stands for Python's -1                *)
(***************************************************************************)
\* one iteration of the for loop, on character s[i]; found is the returned
\* index once the loop has returned
FindParenStep(s, st, i) ==
        Let(s[i], LAMBDA char :
        Let(IF TogglesString(s, i) THEN ~st.in_string ELSE st.in_string, LAMBDA in_string1 :
        IF in_string1 THEN [st EXCEPT !.in_string = in_string1]
        ELSE IF char = "("
        THEN [st EXCEPT !.in_string = in_string1, !.depth = @ + 1]
        ELSE IF char = ")"
        THEN [in_string |-> in_string1, depth |-> st.depth - 1,
              found |-> IF st.depth - 1 = 0 THEN i ELSE 0]
        ELSE [st EXCEPT !.in_string = in_string1]))

\* the iterations lo..hi of the for loop, from state st
RECURSIVE FindParenLoop(_, _, _, _)
FindParenLoop(s, lo, hi, st) ==
    IF lo > hi \/ st.found # 0 THEN st
    ELSE IF lo = hi THEN FindParenStep(s, st, lo)
    ELSE     Let((lo + hi) \div 2, LAMBDA mid :
             Let(FindParenLoop(s, lo, mid, st), LAMBDA st1 :
             Strict(st1, FindParenLoop(s, mid + 1, hi, st1))))

find_matching_paren(s, start) ==
    FindParenLoop(s, start, Len(s),
                  [in_string |-> FALSE, depth |-> 0, found |-> 0]).found

(***************************************************************************)
(* DB2Parser._split_column_defs                                            *)
(***************************************************************************)
\* one iteration of the for loop, on character s[i]
SplitDefsStep(s, st, i) ==
        Let(s[i], LAMBDA char :
        Let(st.current, LAMBDA current :
        Let(       char = "'" /\
                   (current = <<>> \/ current[Len(current)] # "\\"), LAMBDA toggles :
        Let(IF toggles THEN ~st.in_string ELSE st.in_string, LAMBDA in_string1 :
        IF ~in_string1 /\ char = "("
        THEN [st EXCEPT !.in_string = in_string1, !.paren_depth = @ + 1,
                        !.current = Append(@, char)]
        ELSE IF ~in_string1 /\ char = ")"
        THEN [st EXCEPT !.in_string = in_string1, !.paren_depth = @ - 1,
                        !.current = Append(@, char)]
        ELSE IF ~in_string1 /\ char = "," /\ st.paren_depth = 0
        THEN [st EXCEPT !.in_string = in_string1, !.current = <<>>,
                        !.parts = Append(@, current)]
        ELSE [st EXCEPT !.in_string = in_string1, !.current = Append(@, char)]))))

\* the iterations lo..hi of the for loop, from state st
RECURSIVE SplitDefsLoop(_, _, _, _)
SplitDefsLoop(s, lo, hi, st) ==
    IF lo > hi THEN st
    ELSE IF lo = hi THEN SplitDefsStep(s, st, lo)
    ELSE     Let((lo + hi) \div 2, LAMBDA mid :
             Let(SplitDefsLoop(s, lo, mid, st), LAMBDA st1 :
             Strict(st1, SplitDefsLoop(s, mid + 1, hi, st1))))

split_column_defs(s) ==
        Let(   SplitDefsLoop(s, 1, Len(s), [current |-> <<>>, paren_depth |-> 0,
                                    in_string |-> FALSE, parts |-> <<>>]), LAMBDA end :
        IF end.current # <<>> THEN Append(end.parts, end.current) ELSE end.parts)

(***************************************************************************)
(* Values                                                                  *)
(***************************************************************************)
\* Python's None for an optional string, and for an optional int
None == "None"

NoneInt == -1

\* truthiness of an Optional[int]: None and 0 are false
Truthy(n) == n # NoneInt /\ n # 0

\* ''.join(tokens)
RECURSIVE Join(_)
Join(s) == IF s = <<>> THEN "" ELSE Head(s) \o Join(Tail(s))

\* tokens that are a run of digits, with int() of them
NumVal ==
    [ t \in {"0", "1", "3", "6", "9", "10", "40"} |->
        CASE t = "0" -> 0
          [] t = "1" -> 1
          [] t = "3" -> 3
          [] t = "6" -> 6
          [] t = "9" -> 9
          [] t = "10" -> 10
          [] t = "40" -> 40 ]

IsNumber(t) == t \in DOMAIN NumVal

\* words written with double quotes around them, and the word inside
QuotedWords == { <<"\"Order\"", "Order">>, <<"\"T\"", "T">> }

(***************************************************************************)
(* DB2Parser._clean_identifier                                             *)
(***************************************************************************)
RECURSIVE StripQuoteTokens(_)
StripQuoteTokens(s) ==
    IF s # <<>> /\ Head(s) = "'" THEN StripQuoteTokens(Tail(s))
    ELSE IF s # <<>> /\ s[Len(s)] = "'"
         THEN StripQuoteTokens(SubSeq(s, 1, Len(s) - 1))
    ELSE s

CleanWord(t) ==
    IF \E q \in QuotedWords : q[1] = t
    THEN (CHOOSE q \in QuotedWords : q[1] = t)[2]
    ELSE t

\* identifier given as the tokens of the matched text
clean_identifier(toks) ==
        Let(StripQuoteTokens(toks), LAMBDA inner :
        IF Len(inner) = 1 THEN CleanWord(inner[1]) ELSE Join(inner))

(***************************************************************************)
(* Matchers shared by the regular expressions                              *)
(***************************************************************************)
\* \s+ at i: the position after it, 0 if there is no whitespace at i
WSPlus(s, i) == IF i <= Len(s) /\ IsWS(s[i]) THEN SkipWS(s, i) ELSE 0

At(s, i) == IF i >= 1 /\ i <= Len(s) THEN s[i] ELSE "\n"

\* "w1 w2 .. wn" in text (one blank between the words), starting at token i
PhraseAt(s, i, words) ==
    /\ i + 2 * (Len(words) - 1) <= Len(s)
    /\ \A k \in 1..Len(words) :
              Let(s[i + 2 * (k - 1)], LAMBDA t :
              /\ IsWord(t)
              /\ IF Len(words) = 1 THEN Contains(t, words[k])
                 ELSE IF k = 1 THEN HasSuffix(t, words[k])
                 ELSE IF k = Len(words) THEN HasPrefix(t, words[k])
                 ELSE t = words[k])
    /\ \A k \in 1..(Len(words) - 1) : s[i + 2 * k - 1] = " "

InText(s, words) == \E i \in 1..Len(s) : PhraseAt(s, i, words)

\* the position of the first ")" at or after i, 0 if none
FirstClose(s, i) ==
        Let({j \in i..Len(s) : s[j] = ")"}, LAMBDA hits :
        IF hits = {} THEN 0 ELSE MinOf(hits))

\* the position of the last ")" at or after i, 0 if none
LastClose(s, i) ==
        Let({j \in i..Len(s) : s[j] = ")"}, LAMBDA hits :
        IF hits = {} THEN 0 ELSE MaxOf(hits))

\* \(([^)]+)\) at i: [ok, from, to, end] with the group s[from..to]
ParenGroupAt(s, i) ==
        Let(FirstClose(s, i + 1), LAMBDA c :
        IF At(s, i) = "(" /\ i <= Len(s) /\ c > i + 1
        THEN [ok |-> TRUE, from |-> i + 1, to |-> c - 1, end |-> c + 1]
        ELSE [ok |-> FALSE, from |-> 0, to |-> 0, end |-> 0])

\* s.split(',') of a token sequence
RECURSIVE SplitComma(_, _, _)
SplitComma(s, current, parts) ==
    IF s = <<>> THEN Append(parts, current)
    ELSE IF Head(s) = "," THEN SplitComma(Tail(s), <<>>, Append(parts, current))
    ELSE SplitComma(Tail(s), Append(current, Head(s)), parts)

\* [clean_identifier(c.strip()) for c in group.split(',')]
IdentList(group) ==
        Let(SplitComma(group, <<>>, <<>>), LAMBDA pieces :
        [k \in 1..Len(pieces) |-> clean_identifier(Strip(pieces[k]))])

\* end of the run of tokens accepted at i (exclusive), for ["\w.]+ and \S+
RECURSIVE RunEnd(_, _, _)
RunEnd(s, i, dots) ==
    IF i <= Len(s) /\ (IsWord(s[i]) \/ (dots /\ s[i] = ".")) THEN RunEnd(s, i + 1, dots)
    ELSE i

RECURSIVE NonSpaceEnd(_, _)
NonSpaceEnd(s, i) ==
    IF i <= Len(s) /\ ~IsWS(s[i]) THEN NonSpaceEnd(s, i + 1) ELSE i

(***************************************************************************)
(* DB2Parser.DATA_TYPE_PATTERN                                             *)
(***************************************************************************)
\* the alternatives of the pattern in the order the regex tries them; a
\* two-word type is <<first, second>>, joined by \s+
TypeAlternatives ==
    << <<"SMALLINT">>, <<"INTEGER">>, <<"INT">>, <<"BIGINT">>, <<"DECIMAL">>,
       <<"DEC">>, <<"NUMERIC">>, <<"REAL">>, <<"FLOAT">>, <<"DOUBLE">>,
       <<"DECFLOAT">>, <<"CHARACTER", "VARYING">>, <<"CHAR", "VARYING">>,
       <<"VARCHAR">>, <<"LONG", "VARCHAR">>, <<"CHARACTER">>, <<"CHAR">>,
       <<"CLOB">>, <<"GRAPHIC">>, <<"VARGRAPHIC">>, <<"LONG", "VARGRAPHIC">>,
       <<"DBCLOB">>, <<"BINARY", "VARYING">>, <<"VARBINARY">>, <<"BINARY">>,
       <<"BLOB">>, <<"DATE">>, <<"TIMESTAMP">>, <<"TIME">>, <<"XML">>,
       <<"ROWID">>, <<"BOOLEAN">> >>

\* alternative alt matches at the start of s (the type name is a prefix of
\* the text: no word boundary follows it in the pattern)
AltMatches(s, alt) ==
    IF Len(alt) = 1 THEN s # <<>> /\ HasPrefix(s[1], alt[1])
    ELSE /\ s # <<>> /\ s[1] = alt[1]
         /\ WSPlus(s, 2) # 0
         /\ HasPrefix(At(s, WSPlus(s, 2)), alt[2])

\* the optional size suffix (?:\s*\(\s*(\d+)(?:\s*,\s*(\d+))?\s*\))? at i
SizeSuffixAt(s, i) ==
        Let([ok |-> FALSE, g2 |-> NoneInt, g3 |-> NoneInt, end |-> i], LAMBDA none :
        Let(SkipWS(s, i), LAMBDA p :
        Let(SkipWS(s, p + 1), LAMBDA n1 :
        Let(SkipWS(s, n1 + 1), LAMBDA a1 :
        Let(SkipWS(s, a1 + 1), LAMBDA n2 :
        Let(SkipWS(s, n2 + 1), LAMBDA a2 :
        IF ~(At(s, p) = "(" /\ IsNumber(At(s, n1))) THEN none
        ELSE IF At(s, a1) = ")"
        THEN [ok |-> TRUE, g2 |-> NumVal[s[n1]], g3 |-> NoneInt, end |-> a1 + 1]
        ELSE IF At(s, a1) = "," /\ IsNumber(At(s, n2)) /\ At(s, a2) = ")"
        THEN [ok |-> TRUE, g2 |-> NumVal[s[n1]], g3 |-> NumVal[s[n2]],
              end |-> a2 + 1]
        ELSE none))))))

\* DATA_TYPE_PATTERN.match(s): [ok, data_type, g2, g3, rest]; rest is the
\* text after the match.  When the type name ends inside a word, the rest of
\* that word stays in front of the remaining text (written "~")
TypeMatch(s) ==
        Let({k \in 1..Len(TypeAlternatives) : AltMatches(s, TypeAlternatives[k])}, LAMBDA hits :
        IF hits = {}
        THEN [ok |-> FALSE, data_type |-> "", g2 |-> NoneInt, g3 |-> NoneInt,
              rest |-> s]
        ELSE
              Let(TypeAlternatives[MinOf(hits)], LAMBDA alt :
              Let(IF Len(alt) = 1 THEN 1 ELSE WSPlus(s, 2), LAMBDA last :
              Let(s[last] = alt[Len(alt)], LAMBDA whole :
              Let(IF Len(alt) = 1 THEN alt[1] ELSE alt[1] \o " " \o alt[2], LAMBDA name :
              Let(SizeSuffixAt(s, last + 1), LAMBDA size :
              IF whole
              THEN [ok |-> TRUE, data_type |-> name, g2 |-> size.g2,
                    g3 |-> size.g3, rest |-> Drop(s, size.end)]
              ELSE [ok |-> TRUE, data_type |-> name, g2 |-> NoneInt,
                    g3 |-> NoneInt, rest |-> <<"~">> \o Drop(s, last + 1)]))))))

(***************************************************************************)
(* DB2Parser._parse_column                                                 *)
(***************************************************************************)
\* FIELDPROC\s+(\S+), searched in the text: the captured name, None if absent
FieldprocOf(s) ==
        Let(    {i \in 1..Len(s) :
                    /\ IsWord(s[i]) /\ HasSuffix(s[i], "FIELDPROC")
                    /\ WSPlus(s, i + 1) # 0
                    /\ WSPlus(s, i + 1) <= Len(s)}, LAMBDA hits :
        IF hits = {} THEN None
        ELSE     Let(WSPlus(s, MinOf(hits) + 1), LAMBDA b :
                 Join(SubSeq(s, b, NonSpaceEnd(s, b) - 1))))

\* [column, warnings]: column is NoColumn when the definition is dropped
NoColumn == [name |-> "", data_type |-> "", length |-> NoneInt,
             precision |-> NoneInt, scale |-> NoneInt, nullable |-> TRUE,
             generated |-> None, for_bit_data |-> FALSE, fieldproc |-> None]

parse_column(part) ==
        Let(Strip(part), LAMBDA col_def :
        IF col_def = <<>> THEN [ok |-> FALSE, column |-> NoColumn, warnings |-> <<>>]
        ELSE IF ~IsWord(col_def[1])
        THEN [ok |-> FALSE, column |-> NoColumn,
              warnings |-> << <<"Could not parse column name: ", Join(col_def)>> >>]
        ELSE
              Let(clean_identifier(<<col_def[1]>>), LAMBDA name :
              Let(Strip(Drop(col_def, 2)), LAMBDA remaining :
              Let(TypeMatch(remaining), LAMBDA type_match :
              Let(Strip(type_match.rest), LAMBDA rest :
              IF ~type_match.ok
              THEN [ok |-> FALSE, column |-> NoColumn,
                    warnings |-> << <<"Could not parse data type for column ", name>> >>]
              ELSE [ok |-> TRUE,
                    column |->
                      [name |-> name,
                       data_type |-> type_match.data_type,
                       length |-> type_match.g2,
                       precision |-> type_match.g2,
                       scale |-> type_match.g3,
                       nullable |-> ~InText(rest, <<"NOT", "NULL">>),
                       generated |->
                         IF InText(rest, <<"GENERATED", "ALWAYS">>) THEN "ALWAYS"
                         ELSE IF InText(rest, <<"GENERATED", "BY", "DEFAULT">>)
                              THEN "BY DEFAULT"
                         ELSE None,
                       for_bit_data |-> InText(rest, <<"FOR", "BIT", "DATA">>),
                       fieldproc |-> FieldprocOf(rest)],
                    warnings |-> <<>>])))))

(***************************************************************************)
(* DB2Parser._is_constraint                                                *)
(***************************************************************************)
constraint_keywords ==
    << <<"PRIMARY", "KEY">>, <<"FOREIGN", "KEY">>, <<"UNIQUE">>, <<"CHECK">>,
       <<"CONSTRAINT">> >>

\* upper.startswith(kw): the keyword is a prefix of the text
StartsWithKw(s, kw) ==
    IF Len(kw) = 1 THEN s # <<>> /\ HasPrefix(s[1], kw[1])
    ELSE Len(s) >= 3 /\ s[1] = kw[1] /\ s[2] = " " /\ HasPrefix(s[3], kw[2])

\* f' {kw}' in upper: the keyword right after a blank
AfterBlankKw(s, kw) ==
    \E i \in 1..Len(s) :
        /\ s[i] = " "
        /\ StartsWithKw(Drop(s, i + 1), kw)

is_constraint(part) ==
        Let(Strip(part), LAMBDA upper :
        \E k \in 1..Len(constraint_keywords) :
            \/ StartsWithKw(upper, constraint_keywords[k])
            \/ AfterBlankKw(upper, constraint_keywords[k]))

(***************************************************************************)
(* DB2Parser._parse_constraint                                             *)
(***************************************************************************)
NoConstraint == [type |-> "", name |-> None, columns |-> <<>>,
                 reference_table |-> None, reference_columns |-> <<>>,
                 check_condition |-> <<None>>]

\* re.match(r'CONSTRAINT\s+(["\w]+)', constraint_def): the name, or None
ConstraintName(s) ==
    IF /\ s # <<>> /\ s[1] = "CONSTRAINT"
       /\ WSPlus(s, 2) # 0 /\ IsWord(At(s, WSPlus(s, 2)))
    THEN clean_identifier(<<s[WSPlus(s, 2)]>>)
    ELSE None

\* KW1\s+KW2\s*\(([^)]+)\) searched in s: the first match, as ParenGroupAt
TwoWordGroup(s, w1, w2) ==
        Let(    {i \in 1..Len(s) :
                    /\ IsWord(s[i]) /\ HasSuffix(s[i], w1)
                    /\ WSPlus(s, i + 1) # 0
                    /\ At(s, WSPlus(s, i + 1)) = w2
                    /\ ParenGroupAt(s, SkipWS(s, WSPlus(s, i + 1) + 1)).ok}, LAMBDA hits :
        IF hits = {} THEN ParenGroupAt(s, 0)
        ELSE ParenGroupAt(s, SkipWS(s, WSPlus(s, MinOf(hits) + 1) + 1)))

\* KW\s*\(([^)]+)\) searched in s
OneWordGroup(s, w) ==
        Let(    {i \in 1..Len(s) :
                    /\ IsWord(s[i]) /\ HasSuffix(s[i], w)
                    /\ ParenGroupAt(s, SkipWS(s, i + 1)).ok}, LAMBDA hits :
        IF hits = {} THEN ParenGroupAt(s, 0)
        ELSE ParenGroupAt(s, SkipWS(s, MinOf(hits) + 1)))

\* FOREIGN\s+KEY\s*\(([^)]+)\)\s*REFERENCES\s+(["\w.]+)\s*\(([^)]+)\)
ForeignKeyMatch(s) ==
        Let(    [ok |-> FALSE, columns |-> <<>>, reference_table |-> None,
                 reference_columns |-> <<>>], LAMBDA fail :
    LET try(i) ==
                Let(WSPlus(s, i + 1), LAMBDA k :
                Let(ParenGroupAt(s, SkipWS(s, k + 1)), LAMBDA g1 :
                Let(SkipWS(s, g1.end), LAMBDA r :
                Let(WSPlus(s, r + 1), LAMBDA t :
                Let(RunEnd(s, t, TRUE), LAMBDA te :
                Let(ParenGroupAt(s, SkipWS(s, te)), LAMBDA g3 :
                IF /\ IsWord(s[i]) /\ HasSuffix(s[i], "FOREIGN")
                   /\ k # 0 /\ At(s, k) = "KEY" /\ g1.ok
                   /\ At(s, r) = "REFERENCES" /\ t # 0 /\ te > t /\ g3.ok
                THEN [ok |-> TRUE,
                      columns |-> IdentList(SubSeq(s, g1.from, g1.to)),
                      reference_table |-> Join(SubSeq(s, t, te - 1)),
                      reference_columns |-> IdentList(SubSeq(s, g3.from, g3.to))]
                ELSE fail))))))
    IN  Let({i \in 1..Len(s) : try(i).ok}, LAMBDA hits :
        IF hits = {} THEN fail ELSE try(MinOf(hits))))

\* CHECK\s*\((.+)\) with DOTALL: from the first CHECK( to the last ")";
\* <<None>> stands for the None of an unmatched pattern
CheckCondition(s) ==
        Let(    {i \in 1..Len(s) :
                    /\ IsWord(s[i]) /\ HasSuffix(s[i], "CHECK")
                    /\ At(s, SkipWS(s, i + 1)) = "("
                    /\ LastClose(s, SkipWS(s, i + 1) + 2) # 0}, LAMBDA hits :
        IF hits = {} THEN <<None>>
        ELSE     Let(SkipWS(s, MinOf(hits) + 1), LAMBDA p :
                 Strip(SubSeq(s, p + 1, LastClose(s, p + 2) - 1))))

GroupColumns(s, g) == IF g.ok THEN IdentList(SubSeq(s, g.from, g.to)) ELSE <<>>

\* [ok, constraint]: ok is FALSE when the method returns None
parse_constraint(constraint_def) ==
        Let(constraint_def, LAMBDA s :
        Let([NoConstraint EXCEPT !.name = ConstraintName(s)], LAMBDA named :
        Let(ForeignKeyMatch(s), LAMBDA fk :
        IF InText(s, <<"PRIMARY", "KEY">>)
        THEN [ok |-> TRUE,
              constraint |-> [named EXCEPT
                  !.type = "PRIMARY KEY",
                  !.columns = GroupColumns(s, TwoWordGroup(s, "PRIMARY", "KEY"))]]
        ELSE IF InText(s, <<"FOREIGN", "KEY">>)
        THEN [ok |-> TRUE,
              constraint |-> [named EXCEPT
                  !.type = "FOREIGN KEY",
                  !.columns = fk.columns,
                  !.reference_table = fk.reference_table,
                  !.reference_columns = fk.reference_columns]]
        ELSE IF InText(s, <<"UNIQUE">>)
        THEN [ok |-> TRUE,
              constraint |-> [named EXCEPT
                  !.type = "UNIQUE",
                  !.columns = GroupColumns(s, OneWordGroup(s, "UNIQUE"))]]
        ELSE IF InText(s, <<"CHECK">>)
        THEN [ok |-> TRUE,
              constraint |-> [named EXCEPT
                  !.type = "CHECK",
                  !.check_condition = CheckCondition(s)]]
        ELSE [ok |-> FALSE, constraint |-> named])))

(***************************************************************************)
(* DB2Parser._parse_columns_and_constraints                                *)
(***************************************************************************)
\* folds the parts into [columns, constraints, warnings]
RECURSIVE PartsLoop(_, _, _)
PartsLoop(parts, k, acc) ==
    IF k > Len(parts) THEN acc
    ELSE
          Let(Strip(parts[k]), LAMBDA part :
          IF part = <<>> THEN PartsLoop(parts, k + 1, acc)
          ELSE IF is_constraint(part)
          THEN     Let(parse_constraint(part), LAMBDA c :
                   PartsLoop(parts, k + 1,
                     IF c.ok
                     THEN [acc EXCEPT !.constraints = Append(@, c.constraint)]
                     ELSE acc))
          ELSE     Let(parse_column(part), LAMBDA c :
                   PartsLoop(parts, k + 1,
                     [acc EXCEPT
                        !.columns = IF c.ok THEN Append(@, c.column) ELSE @,
                        !.warnings = @ \o c.warnings])))

parse_columns_and_constraints(columns_str) ==
    PartsLoop(split_column_defs(columns_str), 1,
              [columns |-> <<>>, constraints |-> <<>>, warnings |-> <<>>])

(***************************************************************************)
(* DB2Parser._parse_table_options and _parse_partition                     *)
(* (tablespace, audit, data_capture and ccsid are parsed by the source     *)
(* and read by neither the assessor nor the converters; they are left out) *)
(***************************************************************************)
NoPartition == [type |-> None, columns |-> <<>>]

\* KW\s+(["\w.]+) searched in s: the captured name, None if absent
ProcName(s, kw) ==
        Let(    {i \in 1..Len(s) :
                    /\ IsWord(s[i]) /\ HasSuffix(s[i], kw)
                    /\ WSPlus(s, i + 1) # 0
                    /\ RunEnd(s, WSPlus(s, i + 1), TRUE) > WSPlus(s, i + 1)}, LAMBDA hits :
        IF hits = {} THEN None
        ELSE     Let(WSPlus(s, MinOf(hits) + 1), LAMBDA b :
                 Join(SubSeq(s, b, RunEnd(s, b, TRUE) - 1))))

\* PARTITION\s+BY\s+(RANGE|HASH)\s*\(([^)]+)\) searched in s
parse_partition(s) ==
    LET try(i) ==
                Let(WSPlus(s, i + 1), LAMBDA b :
                Let(WSPlus(s, b + 1), LAMBDA t :
                Let(ParenGroupAt(s, SkipWS(s, t + 1)), LAMBDA g :
                IF /\ IsWord(s[i]) /\ HasSuffix(s[i], "PARTITION")
                   /\ b # 0 /\ At(s, b) = "BY"
                   /\ t # 0 /\ At(s, t) \in {"RANGE", "HASH"} /\ g.ok
                THEN [ok |-> TRUE,
                      partition |-> [type |-> s[t],
                                     columns |-> IdentList(SubSeq(s, g.from, g.to))]]
                ELSE [ok |-> FALSE, partition |-> NoPartition])))
    IN  Let({i \in 1..Len(s) : try(i).ok}, LAMBDA hits :
        IF hits = {} THEN NoPartition ELSE try(MinOf(hits)).partition)

parse_table_options(options_str) ==
    [editproc |-> ProcName(options_str, "EDITPROC"),
     validproc |-> ProcName(options_str, "VALIDPROC"),
     partition |-> IF InText(options_str, <<"PARTITION", "BY">>)
                   THEN parse_partition(options_str)
                   ELSE NoPartition]

(***************************************************************************)
(* DB2Parser.CREATE_TABLE_PATTERN and DECLARE_TEMP_PATTERN                 *)
(***************************************************************************)
NoHeader == [ok |-> FALSE, volatile |-> FALSE, global_temporary |-> FALSE,
             schema |-> None, name |-> "", paren |-> 0]

\* (?:(["\w]+)\.)?(["\w]+)\s*\( at i, after the keywords
NameAt(s, i, vol, glob) ==
    IF /\ IsWord(At(s, i)) /\ At(s, i + 1) = "." /\ IsWord(At(s, i + 2))
       /\ At(s, SkipWS(s, i + 3)) = "("
    THEN [ok |-> TRUE, volatile |-> vol, global_temporary |-> glob,
          schema |-> clean_identifier(<<s[i]>>),
          name |-> clean_identifier(<<s[i + 2]>>), paren |-> SkipWS(s, i + 3)]
    ELSE IF IsWord(At(s, i)) /\ At(s, SkipWS(s, i + 1)) = "("
    THEN [ok |-> TRUE, volatile |-> vol, global_temporary |-> glob,
          schema |-> None, name |-> clean_identifier(<<s[i]>>),
          paren |-> SkipWS(s, i + 1)]
    ELSE NoHeader

\* (?:GLOBAL\s+TEMPORARY\s+)? at i: the position after it, i if absent
GlobalTemporaryAt(s, i) ==
        Let(WSPlus(s, i + 1), LAMBDA t :
        IF At(s, i) = "GLOBAL" /\ t # 0 /\ At(s, t) = "TEMPORARY"
           /\ WSPlus(s, t + 1) # 0
        THEN WSPlus(s, t + 1) ELSE i)

\* CREATE\s+(?:(VOLATILE)\s+)?(?:(GLOBAL\s+TEMPORARY)\s+)?TABLE\s+... at i
CreateHeaderAt(s, i) ==
        Let(WSPlus(s, i + 1), LAMBDA a :
        Let( IF At(s, a) = "VOLATILE" /\ WSPlus(s, a + 1) # 0
             THEN WSPlus(s, a + 1) ELSE a, LAMBDA v :
        Let(GlobalTemporaryAt(s, v), LAMBDA g :
        Let(WSPlus(s, g + 1), LAMBDA n :
        IF /\ IsWord(s[i]) /\ HasSuffix(s[i], "CREATE") /\ a # 0
           /\ At(s, g) = "TABLE" /\ n # 0
        THEN NameAt(s, n, v # a, g # v)
        ELSE NoHeader))))

\* DECLARE\s+GLOBAL\s+TEMPORARY\s+TABLE\s+... at i
DeclareHeaderAt(s, i) ==
        Let(WSPlus(s, i + 1), LAMBDA a :
        Let(GlobalTemporaryAt(s, a), LAMBDA g :
        Let(WSPlus(s, g + 1), LAMBDA n :
        IF /\ IsWord(s[i]) /\ HasSuffix(s[i], "DECLARE") /\ a # 0
           /\ g # a /\ At(s, g) = "TABLE" /\ n # 0
        THEN NameAt(s, n, FALSE, TRUE)
        ELSE NoHeader)))

\* pattern.search(stmt): the leftmost match
SearchHeader(s, declare) ==
    LET at(i) == IF declare THEN DeclareHeaderAt(s, i) ELSE CreateHeaderAt(s, i)
    IN  Let({i \in 1..Len(s) : at(i).ok}, LAMBDA hits :
        IF hits = {} THEN NoHeader ELSE at(MinOf(hits)))

(***************************************************************************)
(* DB2Parser._parse_create_table and _parse_declare_temp_table             *)
(***************************************************************************)
NoTable == [schema |-> None, name |-> "", columns |-> <<>>,
            constraints |-> <<>>, partition |-> NoPartition,
            editproc |-> None, validproc |-> None,
            volatile |-> FALSE, global_temporary |-> FALSE]

\* [ok, table, errors, warnings]; ok is FALSE when the method returns None
ParseTableStatement(stmt, declare) ==
        Let(SearchHeader(stmt, declare), LAMBDA match :
        Let(match.paren, LAMBDA col_start :
        Let(find_matching_paren(stmt, col_start), LAMBDA col_end :
        Let(parse_columns_and_constraints(SubSeq(stmt, col_start + 1, col_end - 1)), LAMBDA body :
        Let(parse_table_options(Drop(stmt, col_end + 1)), LAMBDA options :
        IF ~match.ok
        THEN [ok |-> FALSE, table |-> NoTable, warnings |-> <<>>,
              errors |-> << IF declare
                            THEN "Could not parse DECLARE GLOBAL TEMPORARY TABLE"
                            ELSE "Could not parse table name" >>]
        ELSE IF col_end = 0
        THEN [ok |-> FALSE, table |-> NoTable, warnings |-> <<>>,
              errors |-> <<"Could not find end of column definitions">>]
        ELSE [ok |-> TRUE,
              table |-> [schema |-> match.schema,
                         name |-> match.name,
                         columns |-> body.columns,
                         constraints |-> body.constraints,
                         partition |-> options.partition,
                         editproc |-> options.editproc,
                         validproc |-> options.validproc,
                         volatile |-> match.volatile,
                         global_temporary |-> declare \/ match.global_temporary],
              warnings |-> body.warnings,
              errors |-> <<>>])))))

parse_create_table(stmt) == ParseTableStatement(stmt, FALSE)

parse_declare_temp_table(stmt) == ParseTableStatement(stmt, TRUE)

(***************************************************************************)
(* DB2Parser.parse                                                         *)
(***************************************************************************)
\* re.match(r'^\s*CREATE\s+(?:VOLATILE\s+)?(?:GLOBAL\s+TEMPORARY\s+)?TABLE')
IsCreateTable(s) ==
        Let(SkipWS(s, 1), LAMBDA i :
        Let(WSPlus(s, i + 1), LAMBDA a :
        Let( IF At(s, a) = "VOLATILE" /\ WSPlus(s, a + 1) # 0
             THEN WSPlus(s, a + 1) ELSE a, LAMBDA v :
        Let(GlobalTemporaryAt(s, v), LAMBDA g :
        At(s, i) = "CREATE" /\ a # 0 /\ HasPrefix(At(s, g), "TABLE")))))

\* re.match(r'^\s*DECLARE\s+GLOBAL\s+TEMPORARY\s+TABLE')
IsDeclareTable(s) ==
        Let(SkipWS(s, 1), LAMBDA i :
        Let(WSPlus(s, i + 1), LAMBDA a :
        Let(GlobalTemporaryAt(s, a), LAMBDA g :
        At(s, i) = "DECLARE" /\ a # 0 /\ g # a /\ HasPrefix(At(s, g), "TABLE"))))

NewParser == [tables |-> <<>>, errors |-> <<>>, warnings |-> <<>>]

RECURSIVE ParseLoop(_, _, _)
ParseLoop(stmts, k, acc) ==
    IF k > Len(stmts) THEN acc
    ELSE
          Let(Strip(stmts[k]), LAMBDA stmt :
          Let(strip_leading_comments(stmt), LAMBDA stmt_without_comments :
          Let( IF IsCreateTable(stmt_without_comments)
               THEN parse_create_table(stmt_without_comments)
               ELSE parse_declare_temp_table(stmt_without_comments), LAMBDA r :
          IF stmt = <<>> THEN ParseLoop(stmts, k + 1, acc)
          ELSE IF \/ IsCreateTable(stmt_without_comments)
                  \/ IsDeclareTable(stmt_without_comments)
          THEN ParseLoop(stmts, k + 1,
                 [tables |-> IF r.ok THEN Append(acc.tables, r.table)
                             ELSE acc.tables,
                  errors |-> acc.errors \o r.errors,
                  warnings |-> acc.warnings \o r.warnings])
          ELSE ParseLoop(stmts, k + 1, acc))))

\* the parser instance after parse(ddl): errors and warnings are reset first
parse(s) == ParseLoop(split_statements(s), 1, NewParser)

\* parse that keeps the messages of the earlier calls
parse_on_NoReset(self, s) ==
    ParseLoop(split_statements(s), 1, [self EXCEPT !.tables = <<>>])

\* DB2Parser.parse called on the instance self, whose errors and warnings hold
\* what its earlier calls left: tables is a new list, self.errors and
\* self.warnings are assigned new lists before the statements are parsed
parse_on(self, s) ==
    ParseLoop(split_statements(s), 1,
              [self EXCEPT !.tables = <<>>, !.errors = <<>>, !.warnings = <<>>])


(***************************************************************************)
(* DataTypeMapper (mapper.py)                                              *)
(***************************************************************************)
MAX_VARCHAR_SIZE == 16 * 1024 * 1024

MAX_BINARY_SIZE == 8 * 1024 * 1024

MAX_LOB_SIZE == 128 * 1024 * 1024

\* TypeMapping(source_type, target_type, status, ewi_code, ewi_message)
TypeMapping(source, target, status, code, message) ==
    [source_type |-> source, target_type |-> target, status |-> status,
     ewi_code |-> code, ewi_message |-> message]

\* f'{name}({n})' if n else name
Sized(name, n) == IF Truthy(n) THEN name \o "(" \o ToString(n) \o ")" ELSE name

\* str(x) of an Optional[int] inside an f-string
Str(n) == IF n = NoneInt THEN "None" ELSE ToString(n)

DIRECT_MAPPINGS ==
    [t \in {"SMALLINT", "INTEGER", "INT", "BIGINT", "REAL", "DOUBLE", "DATE",
            "BOOLEAN"} |->
        CASE t = "INT" -> "INTEGER" [] t = "REAL" -> "FLOAT" [] OTHER -> t]

map_char(length) ==
    TypeMapping(Sized("CHAR", length),
                "VARCHAR(" \o ToString(IF Truthy(length) THEN length ELSE 1) \o ")",
                "compatible", "SSC-EWI-DB2ICE-0001",
                "CHAR converted to VARCHAR - Iceberg does not support fixed-length CHAR")

\* a length equal to the limit already counted as too large
map_varchar_AtLimit(length) ==
    IF Truthy(length) /\ length >= MAX_VARCHAR_SIZE
    THEN TypeMapping(Sized("VARCHAR", length), "VARCHAR", "lossy",
                     "SSC-EWI-DB2ICE-0008", "")
    ELSE TypeMapping(Sized("VARCHAR", length), Sized("VARCHAR", length), "direct",
                     None, None)

\* DataTypeMapper._map_varchar
map_varchar(length) ==
    IF Truthy(length) /\ length > MAX_VARCHAR_SIZE
    THEN TypeMapping(Sized("VARCHAR", length), "VARCHAR", "lossy",
                     "SSC-EWI-DB2ICE-0008",
                     Sized("VARCHAR", length) \o
                       " exceeds Iceberg limit, using VARCHAR without length")
    ELSE TypeMapping(Sized("VARCHAR", length), Sized("VARCHAR", length), "direct",
                     None, None)

map_long_varchar ==
    TypeMapping("LONG VARCHAR", "VARCHAR", "compatible", "SSC-EWI-DB2ICE-0019",
                "LONG VARCHAR converted to VARCHAR")

map_clob(length) ==
    IF Truthy(length) /\ length > MAX_LOB_SIZE
    THEN TypeMapping(Sized("CLOB", length), "VARCHAR", "lossy",
                     "SSC-EWI-DB2ICE-0008",
                     "CLOB size " \o ToString(length) \o
                       " exceeds Snowflake 128MB limit - data truncation may occur")
    ELSE TypeMapping(Sized("CLOB", length), "VARCHAR", "compatible", None, None)

\* the precision limit taken one too low
map_decimal_Limit37(precision, scale) ==
    LET p == IF Truthy(precision) THEN precision ELSE 5
        s == IF Truthy(scale) THEN scale ELSE 0
        number(q, r) == "NUMBER(" \o ToString(q) \o "," \o ToString(r) \o ")"
    IN  IF p > 37
        THEN TypeMapping("DECIMAL", number(38, IF s < 37 THEN s ELSE 37), "lossy",
                         "SSC-EWI-DB2ICE-0002", "")
        ELSE TypeMapping("DECIMAL", number(p, s), "direct", None, None)

\* DataTypeMapper._map_decimal
map_decimal(precision, scale) ==
        Let(IF Truthy(precision) THEN precision ELSE 5, LAMBDA p :
        Let(IF Truthy(scale) THEN scale ELSE 0, LAMBDA s :
        IF p > 38
        THEN TypeMapping("DECIMAL(" \o Str(precision) \o "," \o Str(scale) \o ")",
                         "NUMBER(38," \o ToString(IF s < 37 THEN s ELSE 37) \o ")",
                         "lossy", "SSC-EWI-DB2ICE-0002",
                         "Precision " \o Str(precision) \o
                           " exceeds maximum 38, adjusted to 38")
        ELSE TypeMapping("DECIMAL(" \o ToString(p) \o "," \o ToString(s) \o ")",
                         "NUMBER(" \o ToString(p) \o "," \o ToString(s) \o ")",
                         "direct", None, None)))

map_float(precision) ==
    IF Truthy(precision) /\ precision > 24
    THEN TypeMapping(Sized("FLOAT", precision), "DOUBLE", "direct", None, None)
    ELSE TypeMapping(Sized("FLOAT", precision), "FLOAT", "direct", None, None)

map_decfloat(precision) ==
    TypeMapping(Sized("DECFLOAT", precision), "DOUBLE", "lossy",
                "SSC-EWI-DB2ICE-0007",
                "DECFLOAT converted to DOUBLE - decimal floating point precision may be lost")

\* no mapping made yet
NoMapping == TypeMapping(None, None, None, None, None)

\* DataTypeMapper._map_time
map_time(precision) ==
        Let(IF Truthy(precision) THEN precision ELSE 0, LAMBDA source_precision :
        IF source_precision # 6
        THEN TypeMapping(Sized("TIME", precision), "TIME(6)", "compatible",
                         "SSC-EWI-DB2ICE-0003",
                         "TIME precision adjusted to 6 (microseconds) for Iceberg compatibility")
        ELSE TypeMapping("TIME(6)", "TIME(6)", "direct", None, None))

map_timestamp(precision) ==
        Let(IF Truthy(precision) THEN precision ELSE 6, LAMBDA source_precision :
        Let("TIMESTAMP(" \o ToString(source_precision) \o ")", LAMBDA source :
        IF source_precision # 6
        THEN TypeMapping(source, "TIMESTAMP_NTZ(6)", "compatible",
                         "SSC-EWI-DB2ICE-0004",
                         "TIMESTAMP precision adjusted to 6 (microseconds) for Iceberg compatibility")
        ELSE TypeMapping(source, "TIMESTAMP_NTZ(6)", "direct", None, None)))

\* _map_binary and _map_varbinary differ in the type name only
MapBinaryNamed(name, length) ==
    IF Truthy(length) /\ length > MAX_BINARY_SIZE
    THEN TypeMapping(Sized(name, length), name, "lossy", "SSC-EWI-DB2ICE-0008",
                     Sized(name, length) \o " exceeds Iceberg limit")
    ELSE TypeMapping(Sized(name, length), Sized(name, length), "direct", None, None)

map_binary(length) == MapBinaryNamed("BINARY", length)

map_varbinary(length) == MapBinaryNamed("VARBINARY", length)

map_blob(length) ==
    IF Truthy(length) /\ length > MAX_LOB_SIZE
    THEN TypeMapping(Sized("BLOB", length), "BINARY", "lossy",
                     "SSC-EWI-DB2ICE-0008",
                     "BLOB size " \o ToString(length) \o
                       " exceeds Snowflake limit - data truncation may occur")
    ELSE TypeMapping(Sized("BLOB", length), "BINARY", "compatible",
                     "SSC-EWI-DB2ICE-0020", "BLOB converted to BINARY")

\* _map_graphic and _map_vargraphic differ in the type name only
MapGraphicNamed(name, length) ==
    TypeMapping(Sized(name, length),
                IF Truthy(length) THEN "VARCHAR(" \o ToString(length * 4) \o ")"
                ELSE "VARCHAR",
                "compatible", "SSC-EWI-DB2ICE-0006",
                name \o " (DBCS) converted to VARCHAR - verify character encoding")

map_graphic(length) == MapGraphicNamed("GRAPHIC", length)

map_vargraphic(length) == MapGraphicNamed("VARGRAPHIC", length)

map_long_vargraphic ==
    TypeMapping("LONG VARGRAPHIC", "VARCHAR", "compatible", "SSC-EWI-DB2ICE-0006",
                "LONG VARGRAPHIC converted to VARCHAR - verify character encoding")

map_dbclob(length) ==
    IF Truthy(length) /\ length > MAX_LOB_SIZE
    THEN TypeMapping(Sized("DBCLOB", length), "VARCHAR", "lossy",
                     "SSC-EWI-DB2ICE-0008",
                     "DBCLOB size " \o ToString(length) \o
                       " exceeds Snowflake limit - data truncation may occur")
    ELSE TypeMapping(Sized("DBCLOB", length), "VARCHAR", "compatible",
                     "SSC-EWI-DB2ICE-0006",
                     "DBCLOB converted to VARCHAR - verify character encoding")

map_xml ==
    TypeMapping("XML", "VARCHAR", "unsupported", "SSC-EWI-DB2ICE-0005",
                "XML type not supported in Iceberg tables - manual conversion required")

map_rowid ==
    TypeMapping("ROWID", "VARCHAR(40)", "lossy", "SSC-EWI-DB2ICE-0009",
                "ROWID converted to VARCHAR - values will not be preserved during migration")

\* no default length for the target
map_for_bit_data_Unsized(db2_type, length) ==
    TypeMapping(Sized(db2_type, length) \o " FOR BIT DATA", Sized("BINARY", length),
                "compatible", "SSC-EWI-DB2ICE-0010",
                "FOR BIT DATA converted to BINARY type")

\* DataTypeMapper._map_for_bit_data
map_for_bit_data(db2_type, length) ==
    TypeMapping(Sized(db2_type, length) \o " FOR BIT DATA",
                "BINARY(" \o ToString(IF Truthy(length) THEN length ELSE 1) \o ")",
                "compatible", "SSC-EWI-DB2ICE-0010",
                "FOR BIT DATA converted to BINARY type")

map_type(db2_type, length, precision, scale, for_bit_data) ==
    IF for_bit_data THEN map_for_bit_data(db2_type, length)
    ELSE IF db2_type \in DOMAIN DIRECT_MAPPINGS
    THEN TypeMapping(db2_type, DIRECT_MAPPINGS[db2_type], "direct", None, None)
    ELSE IF db2_type \in {"CHAR", "CHARACTER"} THEN map_char(length)
    ELSE IF db2_type \in {"VARCHAR", "CHAR VARYING", "CHARACTER VARYING"}
    THEN map_varchar(length)
    ELSE IF db2_type = "LONG VARCHAR" THEN map_long_varchar
    ELSE IF db2_type = "CLOB" THEN map_clob(length)
    ELSE IF db2_type \in {"DECIMAL", "DEC", "NUMERIC"} THEN map_decimal(precision, scale)
    ELSE IF db2_type = "FLOAT" THEN map_float(precision)
    ELSE IF db2_type = "DECFLOAT" THEN map_decfloat(precision)
    ELSE IF db2_type = "TIME" THEN map_time(precision)
    ELSE IF db2_type = "TIMESTAMP" THEN map_timestamp(precision)
    ELSE IF db2_type = "BINARY" THEN map_binary(length)
    ELSE IF db2_type \in {"VARBINARY", "BINARY VARYING"} THEN map_varbinary(length)
    ELSE IF db2_type = "BLOB" THEN map_blob(length)
    ELSE IF db2_type = "GRAPHIC" THEN map_graphic(length)
    ELSE IF db2_type = "VARGRAPHIC" THEN map_vargraphic(length)
    ELSE IF db2_type = "LONG VARGRAPHIC" THEN map_long_vargraphic
    ELSE IF db2_type = "DBCLOB" THEN map_dbclob(length)
    ELSE IF db2_type = "XML" THEN map_xml
    ELSE IF db2_type = "ROWID" THEN map_rowid
    ELSE TypeMapping(db2_type, "VARCHAR", "lossy", "SSC-EWI-DB2ICE-0099",
                     "Unknown DB2 type " \o db2_type \o " converted to VARCHAR")


(***************************************************************************)
(* Assessor (assessor.py).  A float score is kept as the exact fraction    *)
(* num/den that the source's arithmetic denotes.                           *)
(***************************************************************************)
\* the partition and special weights exchanged
WEIGHTS_Swapped == [datatype |-> 40, constraint |-> 20, partition |-> 25, special |-> 15]

\* Assessor.WEIGHTS, in hundredths
WEIGHTS == [datatype |-> 40, constraint |-> 20, partition |-> 15, special |-> 25]

\* a lossy conversion penalised like a compatible one
PENALTIES_LossyAsCompatible ==
    [unsupported_type |-> 25, lossy_conversion |-> 2, compatible_type |-> 2,
     editproc |-> 50, validproc |-> 40, fieldproc |-> 50, xml_column |-> 30,
     foreign_key |-> 5, check_constraint |-> 5, complex_partition |-> 20,
     generated_column |-> 15, large_lob |-> 10]

\* an unsupported type that costs nothing
PENALTIES_UnsupportedFree ==
    [unsupported_type |-> 0, lossy_conversion |-> 10, compatible_type |-> 2,
     editproc |-> 50, validproc |-> 40, fieldproc |-> 50, xml_column |-> 30,
     foreign_key |-> 5, check_constraint |-> 5, complex_partition |-> 20,
     generated_column |-> 15, large_lob |-> 10]

\* Assessor.PENALTIES
PENALTIES ==
    [unsupported_type |-> 25, lossy_conversion |-> 10, compatible_type |-> 2,
     editproc |-> 50, validproc |-> 40, fieldproc |-> 50, xml_column |-> 30,
     foreign_key |-> 5, check_constraint |-> 5, complex_partition |-> 20,
     generated_column |-> 15, large_lob |-> 10]

Max(a, b) == IF a >= b THEN a ELSE b

\* TableDefinition.full_name and TableAssessment.full_name
full_name(t) == IF t.schema # None THEN t.schema \o "." \o t.name ELSE t.name

Issue(code, severity, message, table_name, column_name) ==
    [code |-> code, severity |-> severity, message |-> message,
     table_name |-> table_name, column_name |-> column_name]

\* Assessor._score_to_level, for the score num/den
score_to_level(num, den) ==
    IF num >= 80 * den THEN "GREEN"
    ELSE IF num >= 50 * den THEN "YELLOW"
    ELSE "RED"

\* sum of f over a sequence, and concatenation of a sequence of sequences
RECURSIVE SumSeq(_)
SumSeq(s) == IF s = <<>> THEN 0 ELSE Head(s) + SumSeq(Tail(s))

RECURSIVE Flatten(_)
Flatten(s) == IF s = <<>> THEN <<>> ELSE Head(s) \o Flatten(Tail(s))

\* one iteration of the column loop of _assess_table:
\* [issues, penalties, blocks] where blocks means can_auto_convert = False
AssessColumn(table, col) ==
        Let(       map_type(col.data_type, col.length, col.precision, col.scale,
                            col.for_bit_data), LAMBDA mapping :
        Let(full_name(table), LAMBDA tn :
        Let(
            IF mapping.status = "unsupported"
            THEN [issues |-> << Issue(IF mapping.ewi_code # None THEN mapping.ewi_code
                                      ELSE "SSC-EWI-DB2ICE-0099",
                                      "CRITICAL",
                                      IF mapping.ewi_message # None
                                      THEN mapping.ewi_message
                                      ELSE "Unsupported type: " \o col.data_type,
                                      tn, col.name) >>,
                  penalties |-> PENALTIES.unsupported_type, blocks |-> TRUE]
            ELSE IF mapping.status = "lossy"
            THEN [issues |-> << Issue(IF mapping.ewi_code # None THEN mapping.ewi_code
                                      ELSE "SSC-EWI-DB2ICE-0098",
                                      "WARNING",
                                      IF mapping.ewi_message # None
                                      THEN mapping.ewi_message
                                      ELSE "Lossy conversion: " \o col.data_type,
                                      tn, col.name) >>,
                  penalties |-> PENALTIES.lossy_conversion, blocks |-> FALSE]
            ELSE IF mapping.status = "compatible" /\ mapping.ewi_code # None
            THEN [issues |-> << Issue(mapping.ewi_code, "INFO", mapping.ewi_message,
                                      tn, col.name) >>,
                  penalties |-> PENALTIES.compatible_type, blocks |-> FALSE]
            ELSE [issues |-> <<>>, penalties |-> 0, blocks |-> FALSE], LAMBDA type_part :
        Let(
            IF col.fieldproc # None
            THEN [issues |-> << Issue("SSC-EWI-DB2ICE-0011", "CRITICAL",
                                      "FIELDPROC " \o col.fieldproc \o
                                        " - column data may be encrypted/transformed",
                                      tn, col.name) >>,
                  penalties |-> PENALTIES.fieldproc, blocks |-> TRUE]
            ELSE [issues |-> <<>>, penalties |-> 0, blocks |-> FALSE], LAMBDA fieldproc_part :
        Let(
            IF col.generated # None
            THEN [issues |-> << Issue("SSC-EWI-DB2ICE-0014", "WARNING",
                                      "GENERATED " \o col.generated \o
                                        " column - Iceberg does not support generated columns",
                                      tn, col.name) >>,
                  penalties |-> PENALTIES.generated_column]
            ELSE [issues |-> <<>>, penalties |-> 0], LAMBDA generated_part :
        [issues |-> type_part.issues \o fieldproc_part.issues \o generated_part.issues,
         penalties |-> type_part.penalties + fieldproc_part.penalties
                       + generated_part.penalties,
         blocks |-> type_part.blocks \/ fieldproc_part.blocks])))))

\* one iteration of the constraint loop of _assess_table
AssessConstraint(table, constraint) ==
    IF constraint.type = "FOREIGN KEY"
    THEN [issues |-> << Issue("SSC-EWI-DB2ICE-0016", "INFO",
                              "Foreign key constraint - not enforced in Iceberg tables",
                              full_name(table), None) >>,
          penalties |-> PENALTIES.foreign_key]
    ELSE IF constraint.type = "CHECK"
    THEN [issues |-> << Issue("SSC-EWI-DB2ICE-0015", "INFO",
                              "CHECK constraint - not enforced in Iceberg tables",
                              full_name(table), None) >>,
          penalties |-> PENALTIES.check_constraint]
    ELSE [issues |-> <<>>, penalties |-> 0]

\* the EDITPROC, VALIDPROC and partitioning blocks of _assess_table
AssessOptions(table) ==
        Let(full_name(table), LAMBDA tn :
        Let(
            IF table.editproc # None
            THEN [issues |-> << Issue("SSC-EWI-DB2ICE-0012", "CRITICAL",
                                      "EDITPROC " \o table.editproc \o
                                        " - table uses edit procedure for data transformation",
                                      tn, None) >>,
                  penalties |-> PENALTIES.editproc]
            ELSE [issues |-> <<>>, penalties |-> 0], LAMBDA editproc_part :
        Let(
            IF table.validproc # None
            THEN [issues |-> << Issue("SSC-EWI-DB2ICE-0013", "CRITICAL",
                                      "VALIDPROC " \o table.validproc \o
                                        " - table uses validation procedure",
                                      tn, None) >>,
                  penalties |-> PENALTIES.validproc]
            ELSE [issues |-> <<>>, penalties |-> 0], LAMBDA validproc_part :
        Let(
            IF table.partition.type = "HASH"
            THEN [issues |-> << Issue("SSC-EWI-DB2ICE-0017", "WARNING",
                                      "HASH partitioning not directly supported - will be removed",
                                      tn, None) >>,
                  penalties |-> PENALTIES.complex_partition]
            ELSE IF table.partition.type = "RANGE"
            THEN [issues |-> << Issue("SSC-EWI-DB2ICE-0017", "INFO",
                                      "RANGE partitioning will be removed - Iceberg uses automatic partitioning",
                                      tn, None) >>,
                  penalties |-> 0]
            ELSE [issues |-> <<>>, penalties |-> 0], LAMBDA partition_part :
        [issues |-> editproc_part.issues \o validproc_part.issues
                    \o partition_part.issues,
         penalties |-> editproc_part.penalties + validproc_part.penalties
                       + partition_part.penalties,
         blocks |-> table.editproc # None \/ table.validproc # None]))))


\* ta.type_distribution: data type -> number of columns of that type
type_distribution(columns) ==
    [t \in {columns[k].data_type : k \in DOMAIN columns} |->
        Cardinality({k \in DOMAIN columns : columns[k].data_type = t})]

\* Assessor._assess_table
assess_table(table) ==
        Let([k \in DOMAIN table.columns |-> AssessColumn(table, table.columns[k])], LAMBDA cols :
        Let(    [k \in DOMAIN table.constraints |->
                    AssessConstraint(table, table.constraints[k])], LAMBDA cons :
        Let(AssessOptions(table), LAMBDA opts :
        Let(         SumSeq([k \in DOMAIN cols |-> cols[k].penalties])
                     + SumSeq([k \in DOMAIN cons |-> cons[k].penalties])
                     + opts.penalties, LAMBDA penalties :
        Let(Max(0, 100 - penalties), LAMBDA readiness_score :
        [table_name |-> table.name,
         schema |-> table.schema,
         column_count |-> Len(table.columns),
         constraint_count |-> Len(table.constraints),
         readiness_score |-> readiness_score,
         readiness_level |-> score_to_level(readiness_score, 1),
         can_auto_convert |-> ~(opts.blocks \/ \E k \in DOMAIN cols : cols[k].blocks),
         issues |-> Flatten([k \in DOMAIN cols |-> cols[k].issues])
                    \o Flatten([k \in DOMAIN cons |-> cons[k].issues])
                    \o opts.issues,
         type_distribution |-> type_distribution(table.columns)])))))

\* the category of an issue code in _calculate_component_scores
DatatypeCodes ==
    {"SSC-EWI-DB2ICE-0001", "SSC-EWI-DB2ICE-0002", "SSC-EWI-DB2ICE-0003",
     "SSC-EWI-DB2ICE-0004", "SSC-EWI-DB2ICE-0005", "SSC-EWI-DB2ICE-0006",
     "SSC-EWI-DB2ICE-0007", "SSC-EWI-DB2ICE-0008", "SSC-EWI-DB2ICE-0009",
     "SSC-EWI-DB2ICE-0010"}

ConstraintCodes == {"SSC-EWI-DB2ICE-0015", "SSC-EWI-DB2ICE-0016"}

PartitionCodes == {"SSC-EWI-DB2ICE-0017"}

SpecialCodes ==
    {"SSC-EWI-DB2ICE-0011", "SSC-EWI-DB2ICE-0012", "SSC-EWI-DB2ICE-0013",
     "SSC-EWI-DB2ICE-0014"}

\* one iteration of the issue loop of _calculate_component_scores
ComponentStep(scores, issue) ==
        Let(issue.severity, LAMBDA sev :
        IF issue.code \in DatatypeCodes
        THEN [scores EXCEPT !.datatype =
                Max(0, @ - (IF sev = "INFO" THEN 5 ELSE IF sev = "WARNING" THEN 15 ELSE 30))]
        ELSE IF issue.code \in ConstraintCodes
        THEN [scores EXCEPT !.constraint =
                Max(0, @ - (IF sev = "INFO" THEN 5 ELSE 10))]
        ELSE IF issue.code \in PartitionCodes
        THEN [scores EXCEPT !.partition =
                Max(0, @ - (IF sev = "INFO" THEN 10 ELSE 20))]
        ELSE IF issue.code \in SpecialCodes
        THEN [scores EXCEPT !.special =
                Max(0, @ - (IF sev = "INFO" THEN 10 ELSE IF sev = "WARNING" THEN 25 ELSE 50))]
        ELSE scores)

RECURSIVE ComponentLoop(_, _, _)
ComponentLoop(issues, k, scores) ==
    IF k > Len(issues) THEN scores
    ELSE ComponentLoop(issues, k + 1, ComponentStep(scores, issues[k]))

\* Assessor._calculate_component_scores
calculate_component_scores(ta) ==
    ComponentLoop(ta.issues, 1,
                  [datatype |-> 100, constraint |-> 100, partition |-> 100,
                   special |-> 100])

\* a bucket filled from the last issue to the first
RECURSIVE BySeverity_Reversed(_, _)
BySeverity_Reversed(issues, sev) ==
    IF issues = <<>> THEN <<>>
    ELSE IF Head(issues).severity = sev
    THEN BySeverity_Reversed(Tail(issues), sev) \o <<Head(issues)>>
    ELSE BySeverity_Reversed(Tail(issues), sev)

\* the issues of the given severity, in order
RECURSIVE BySeverity(_, _)
BySeverity(issues, sev) ==
    IF issues = <<>> THEN <<>>
    ELSE IF Head(issues).severity = sev
    THEN <<Head(issues)>> \o BySeverity(Tail(issues), sev)
    ELSE BySeverity(Tail(issues), sev)

\* the test made for WARNING instead of CRITICAL
HasCritical_Warning(ta) == \E k \in DOMAIN ta.issues : ta.issues[k].severity = "WARNING"

\* any(i.severity == Severity.CRITICAL for i in ta.issues)
HasCritical(ta) == \E k \in DOMAIN ta.issues : ta.issues[k].severity = "CRITICAL"

\* number of indices of a sequence that satisfy a test
Count(s, Test(_)) == Cardinality({k \in DOMAIN s : Test(s[k])})

\* Assessor._aggregate_features
aggregate_features(tables) ==
        Let(Flatten([k \in DOMAIN tables |-> tables[k].columns]), LAMBDA columns :
        Let(Flatten([k \in DOMAIN tables |-> tables[k].constraints]), LAMBDA constraints :
    LET editproc(t) == t.editproc # None
        validproc(t) == t.validproc # None
        partitioning(t) == t.partition.type # None
        fieldproc(c) == c.fieldproc # None
        generated(c) == c.generated # None
        xml(c) == c.data_type = "XML"
        graphic(c) == c.data_type \in {"GRAPHIC", "VARGRAPHIC", "DBCLOB", "LONG VARGRAPHIC"}
        lob(c) == c.data_type \in {"CLOB", "BLOB", "DBCLOB"}
        fk(c) == c.type = "FOREIGN KEY"
        check(c) == c.type = "CHECK"
    IN  [editproc |-> Count(tables, editproc),
         validproc |-> Count(tables, validproc),
         fieldproc |-> Count(columns, fieldproc),
         partitioning |-> Count(tables, partitioning),
         generated_columns |-> Count(columns, generated),
         foreign_keys |-> Count(constraints, fk),
         check_constraints |-> Count(constraints, check),
         xml_columns |-> Count(columns, xml),
         graphic_columns |-> Count(columns, graphic),
         lob_columns |-> Count(columns, lob)]))

\* AssessmentReport() as constructed: the dataclass defaults
NewReport ==
    [tables_total |-> 0, tables_auto |-> 0, tables_manual |-> 0, tables_blocked |-> 0,
     overall_score |-> [num |-> 0, den |-> 1], overall_level |-> "GREEN",
     datatype_score |-> [num |-> 0, den |-> 1],
     constraint_score |-> [num |-> 0, den |-> 1],
     partition_score |-> [num |-> 0, den |-> 1],
     special_features_score |-> [num |-> 0, den |-> 1],
     total_columns |-> 0, total_constraints |-> 0,
     critical_issues |-> <<>>, warnings |-> <<>>, info_items |-> <<>>,
     table_assessments |-> <<>>, type_distribution |-> <<>>,
     features_used |-> <<>>]

\* report.type_distribution: the per-table distributions added up
MergeDistributions(tas) ==
        Let(UNION {DOMAIN tas[k].type_distribution : k \in DOMAIN tas}, LAMBDA types :
        [t \in types |->
            SumSeq([k \in DOMAIN tas |->
                      IF t \in DOMAIN tas[k].type_distribution
                      THEN tas[k].type_distribution[t] ELSE 0])])

\* Assessor.assess, given the tables returned by self.parser.parse(ddl)
AssessTables(tables) ==
    IF tables = <<>>
    THEN [NewReport EXCEPT !.critical_issues =
            << Issue("SSC-EWI-DB2ICE-0000", "CRITICAL",
                     "No valid CREATE TABLE statements found in input", None, None) >>]
    ELSE
          Let([k \in DOMAIN tables |-> assess_table(tables[k])], LAMBDA tas :
          Let([k \in DOMAIN tas |-> calculate_component_scores(tas[k])], LAMBDA scores :
          Let(Flatten([k \in DOMAIN tas |-> tas[k].issues]), LAMBDA all_issues :
          Let(Len(tas), LAMBDA n :
      LET blocked(ta) == ~ta.can_auto_convert /\ HasCritical(ta)
          manual(ta) == ~ta.can_auto_convert /\ ~HasCritical(ta)
          auto(ta) == ta.can_auto_convert
      IN  Let(SumSeq([k \in DOMAIN scores |-> scores[k].datatype]), LAMBDA datatype :
          Let(SumSeq([k \in DOMAIN scores |-> scores[k].constraint]), LAMBDA constraint :
          Let(SumSeq([k \in DOMAIN scores |-> scores[k].partition]), LAMBDA partition :
          Let(SumSeq([k \in DOMAIN scores |-> scores[k].special]), LAMBDA special :
          Let(       datatype * WEIGHTS.datatype + constraint * WEIGHTS.constraint
                     + partition * WEIGHTS.partition + special * WEIGHTS.special, LAMBDA overall :
          [tables_total |-> Len(tables),
           tables_auto |-> Count(tas, auto),
           tables_manual |-> Count(tas, manual),
           tables_blocked |-> Count(tas, blocked),
           overall_score |-> [num |-> overall, den |-> 100 * n],
           overall_level |-> score_to_level(overall, 100 * n),
           datatype_score |-> [num |-> datatype, den |-> n],
           constraint_score |-> [num |-> constraint, den |-> n],
           partition_score |-> [num |-> partition, den |-> n],
           special_features_score |-> [num |-> special, den |-> n],
           total_columns |-> SumSeq([k \in DOMAIN tas |-> tas[k].column_count]),
           total_constraints |-> SumSeq([k \in DOMAIN tas |-> tas[k].constraint_count]),
           critical_issues |-> BySeverity(all_issues, "CRITICAL"),
           warnings |-> BySeverity(all_issues, "WARNING"),
           info_items |-> BySeverity(all_issues, "INFO"),
           table_assessments |-> tas,
           type_distribution |-> MergeDistributions(tas),
           features_used |-> aggregate_features(tables)])))))))))

\* the empty report returned as constructed, without the no-tables issue
assess_NoIssue(s) ==
    IF parse(s).tables = <<>> THEN NewReport ELSE AssessTables(parse(s).tables)

\* Assessor.assess
assess(s) == AssessTables(parse(s).tables)


(***************************************************************************)
(* DB2IceConverter (converter.py).  Generated text is a sequence of        *)
(* fragments whose concatenation is the string the source builds: the      *)
(* literal pieces of each f-string and the values put between them.        *)
(* external_volume and base_location_pattern have their default values.    *)
(***************************************************************************)
\* the identifiers of the vocabulary that match ^[A-Za-z_][A-Za-z0-9_]*$,
\* each with its lower-case and upper-case form
Identifiers ==
    { <<"A", "a", "A">>, <<"ALWAYS", "always", "ALWAYS">>,
      <<"AUTOINCREMENT", "autoincrement", "AUTOINCREMENT">>,
      <<"B", "b", "B">>, <<"BIT", "bit", "BIT">>, <<"BY", "by", "BY">>,
      <<"C", "c", "C">>, <<"C1", "c1", "C1">>,
      <<"CHANGE_TRACKING", "change_tracking", "CHANGE_TRACKING">>,
      <<"CHAR", "char", "CHAR">>, <<"CHECK", "check", "CHECK">>,
      <<"CLUSTER", "cluster", "CLUSTER">>,
      <<"COLLATE", "collate", "COLLATE">>,
      <<"COMMENT", "comment", "COMMENT">>,
      <<"CONSTRAINT", "constraint", "CONSTRAINT">>,
      <<"CREATE", "create", "CREATE">>, <<"D", "d", "D">>,
      <<"DATA", "data", "DATA">>,
      <<"DATA_RETENTION_TIME_IN_DAYS", "data_retention_time_in_days", "DATA_RETENTION_TIME_IN_DAYS">>,
      <<"DATE", "date", "DATE">>, <<"DATETIME", "datetime", "DATETIME">>,
      <<"DB", "db", "DB">>, <<"DECIMAL", "decimal", "DECIMAL">>,
      <<"DECLARE", "declare", "DECLARE">>,
      <<"DEFAULT", "default", "DEFAULT">>, <<"DROP", "drop", "DROP">>,
      <<"DYNAMIC", "dynamic", "DYNAMIC">>, <<"E", "e", "E">>,
      <<"EDITPROC", "editproc", "EDITPROC">>, <<"EN", "en", "EN">>,
      <<"EP", "ep", "EP">>, <<"EXISTS", "exists", "EXISTS">>,
      <<"EXTERNAL", "external", "EXTERNAL">>, <<"F", "f", "F">>,
      <<"FIELDPROC", "fieldproc", "FIELDPROC">>, <<"FK1", "fk1", "FK1">>,
      <<"FOO", "foo", "FOO">>, <<"FOR", "for", "FOR">>,
      <<"FOREIGN", "foreign", "FOREIGN">>, <<"FP", "fp", "FP">>,
      <<"FP1", "fp1", "FP1">>, <<"G", "g", "G">>,
      <<"GENERATED", "generated", "GENERATED">>,
      <<"GEOGRAPHY", "geography", "GEOGRAPHY">>,
      <<"GLOBAL", "global", "GLOBAL">>, <<"H", "h", "H">>,
      <<"HASH", "hash", "HASH">>, <<"HYBRID", "hybrid", "HYBRID">>,
      <<"I", "i", "I">>, <<"ID", "id", "ID">>,
      <<"IDENTITY", "identity", "IDENTITY">>, <<"IF", "if", "IF">>,
      <<"INT", "int", "INT">>, <<"INTEGER", "integer", "INTEGER">>,
      <<"KEY", "key", "KEY">>, <<"MASKING", "masking", "MASKING">>,
      <<"NOT", "not", "NOT">>, <<"NULL", "null", "NULL">>,
      <<"NUMBER", "number", "NUMBER">>, <<"OR", "or", "OR">>,
      <<"Order", "order", "ORDER">>, <<"P", "p", "P">>,
      <<"PARTITION", "partition", "PARTITION">>,
      <<"POLICY", "policy", "POLICY">>, <<"PRIMARY", "primary", "PRIMARY">>,
      <<"RANGE", "range", "RANGE">>,
      <<"REFERENCES", "references", "REFERENCES">>,
      <<"REPLACE", "replace", "REPLACE">>, <<"ROWID", "rowid", "ROWID">>,
      <<"S", "s", "S">>, <<"T", "t", "T">>, <<"TABLE", "table", "TABLE">>,
      <<"TEMPORARY", "temporary", "TEMPORARY">>, <<"TIME", "time", "TIME">>,
      <<"TIMESTAMP", "timestamp", "TIMESTAMP">>,
      <<"TIMESTAMP_LTZ", "timestamp_ltz", "TIMESTAMP_LTZ">>,
      <<"TIMESTAMP_NTZ", "timestamp_ntz", "TIMESTAMP_NTZ">>,
      <<"TIMESTAMP_TZ", "timestamp_tz", "TIMESTAMP_TZ">>,
      <<"TRANSIENT", "transient", "TRANSIENT">>, <<"TRUE", "true", "TRUE">>,
      <<"TS", "ts", "TS">>, <<"U", "u", "U">>, <<"U1", "u1", "U1">>,
      <<"UNIQUE", "unique", "UNIQUE">>,
      <<"UNIQUE_ID", "unique_id", "UNIQUE_ID">>, <<"V", "v", "V">>,
      <<"VALIDPROC", "validproc", "VALIDPROC">>,
      <<"VARCHAR", "varchar", "VARCHAR">>,
      <<"VARIANT", "variant", "VARIANT">>,
      <<"VOLATILE", "volatile", "VOLATILE">>, <<"VP", "vp", "VP">>,
      <<"WITH", "with", "WITH">>, <<"X", "x", "X">>, <<"XML", "xml", "XML">>,
      <<"Y", "y", "Y">>, <<"c", "c", "C">> }

IsIdentifier(w) == \E e \in Identifiers : e[1] = w

\* str.lower() and str.upper(); text outside the table has no letters to change
Lower(w) == IF IsIdentifier(w) THEN (CHOOSE e \in Identifiers : e[1] = w)[2] ELSE w

Upper(w) == IF IsIdentifier(w) THEN (CHOOSE e \in Identifiers : e[1] = w)[3] ELSE w

reserved ==
    {"ORDER", "GROUP", "SELECT", "FROM", "WHERE", "TABLE", "INDEX", "CREATE",
     "DROP", "ALTER", "INSERT", "UPDATE", "DELETE", "VALUES", "AND", "OR", "NOT",
     "NULL", "TRUE", "FALSE", "DATE", "TIME", "TIMESTAMP"}

\* quoting decided by the reserved words alone
needs_quoting_ReservedOnly(identifier) == Upper(identifier) \in reserved

\* DB2IceConverter._needs_quoting
needs_quoting(identifier) ==
    \/ Upper(identifier) \in reserved
    \/ ~IsIdentifier(identifier)

\* DB2IceConverter._format_identifier
format_identifier(identifier) ==
    IF needs_quoting(identifier) THEN "\"" \o identifier \o "\""
    ELSE Upper(identifier)

\* DB2IceConverter.EWI_TEMPLATE, filled in by _format_ewi
EWI_OPEN == "!!!RESOLVE EWI!!! /*** "

EWI_CLOSE == " ***/!!!"

\* a marker that is never closed
format_ewi_Unclosed(code, message) == <<EWI_OPEN, code, " - ", message>>

\* DB2IceConverter._format_ewi
format_ewi(code, message) == <<EWI_OPEN, code, " - ", message, EWI_CLOSE>>

\* sep.join(items) for a sequence of strings, as one string
RECURSIVE JoinWith(_, _)
JoinWith(items, sep) ==
    IF items = <<>> THEN ""
    ELSE IF Len(items) = 1 THEN items[1]
    ELSE items[1] \o sep \o JoinWith(Tail(items), sep)

\* sep.join(texts) for a sequence of fragment sequences
RECURSIVE JoinText(_, _)
JoinText(texts, sep) ==
    IF texts = <<>> THEN <<>>
    ELSE IF Len(texts) = 1 THEN texts[1]
    ELSE texts[1] \o <<sep>> \o JoinText(Tail(texts), sep)

\* the primary key never found
has_pk_constraint_Never(constraints) == FALSE

\* DB2IceConverter._has_pk_constraint
has_pk_constraint(constraints) ==
    \E k \in DOMAIN constraints : constraints[k].type = "PRIMARY KEY"

\* DB2IceConverter._get_pk_constraint: the first one (has_pk_constraint holds)
get_pk_constraint(constraints) ==
    constraints[MinOf({k \in DOMAIN constraints : constraints[k].type = "PRIMARY KEY"})]

\* DB2IceConverter._generate_base_location
generate_base_location(table) ==
    Lower(IF table.schema # None THEN table.schema ELSE "default")
      \o "/" \o Lower(table.name)

\* DB2IceConverter._convert_column: [line, ewis]
convert_column(col, ewi_on) ==
        Let(       map_type(col.data_type, col.length, col.precision, col.scale,
                            col.for_bit_data), LAMBDA mapping :
        Let(
            IF mapping.ewi_code # None /\ ewi_on
               /\ mapping.status \in {"unsupported", "lossy"}
            THEN << format_ewi(mapping.ewi_code, mapping.ewi_message) >>
            ELSE <<>>, LAMBDA type_markers :
        Let(
            IF col.fieldproc # None /\ ewi_on
            THEN << format_ewi("SSC-EWI-DB2ICE-0011",
                               "FIELDPROC " \o col.fieldproc \o
                                 " - data may be encrypted/transformed") >>
            ELSE <<>>, LAMBDA fieldproc_markers :
        Let(
            IF col.generated # None /\ ewi_on
            THEN << format_ewi("SSC-EWI-DB2ICE-0014",
                               "GENERATED " \o col.generated \o
                                 " not supported in Iceberg") >>
            ELSE <<>>, LAMBDA generated_markers :
        Let(type_markers \o fieldproc_markers \o generated_markers, LAMBDA ewi_markers :
        Let(    <<"    ", format_identifier(col.name), " ", mapping.target_type>>
                \o (IF ~col.nullable THEN <<" ", "NOT NULL">> ELSE <<>>), LAMBDA line :
        [line |-> line \o Flatten([k \in DOMAIN ewi_markers |->
                                     <<"\n", "        ">> \o ewi_markers[k]]),
         ewis |-> Len(ewi_markers)]))))))

\* a column loop that leaves out the first column
ColumnLines_SkipFirst(table, ewi_on) ==
    [lines |-> [k \in 1..(Len(table.columns) - 1) |->
                  convert_column(table.columns[k + 1], ewi_on).line],
     ewis |-> 0]

\* the column loop and the primary-key line shared by _convert_table and
\* _convert_temp_table: [lines, ewis]
ColumnLines(table, ewi_on) ==
        Let([k \in DOMAIN table.columns |-> convert_column(table.columns[k], ewi_on)], LAMBDA cols :
        Let(Len(table.columns), LAMBDA n :
        Let(         [k \in DOMAIN cols |->
                        IF k < n \/ has_pk_constraint(table.constraints)
                        THEN cols[k].line \o <<",">> ELSE cols[k].line], LAMBDA col_lines :
        Let(get_pk_constraint(table.constraints).columns, LAMBDA pk_cols :
        Let(
            IF has_pk_constraint(table.constraints)
            THEN << <<"    PRIMARY KEY (",
                      JoinWith([k \in DOMAIN pk_cols |-> format_identifier(pk_cols[k])],
                               ", "),
                      ")">> >>
            ELSE <<>>, LAMBDA pk_lines :
        [lines |-> col_lines \o pk_lines,
         ewis |-> SumSeq([k \in DOMAIN cols |-> cols[k].ewis])])))))

\* DB2IceConverter._generate_constraint_comments
generate_constraint_comments(constraints) ==
    LET name(c) == IF c.name # None THEN " " \o c.name ELSE ""
        comment(c) ==
            IF c.type = "FOREIGN KEY"
            THEN << <<"-- FOREIGN KEY", name(c), ": (", JoinWith(c.columns, ", "),
                      ") REFERENCES ", c.reference_table, "(",
                      JoinWith(c.reference_columns, ", "), ")">>,
                    <<"-- NOTE: Foreign keys are not enforced in Iceberg tables">> >>
            ELSE IF c.type = "UNIQUE"
            THEN << <<"-- UNIQUE", name(c), ": (", JoinWith(c.columns, ", "), ")">>,
                    <<"-- NOTE: UNIQUE constraints are not enforced in Iceberg tables">> >>
            ELSE IF c.type = "CHECK"
            THEN << <<"-- CHECK", name(c), ": ", Join(c.check_condition)>>,
                    <<"-- NOTE: CHECK constraints are not enforced in Iceberg tables">> >>
            ELSE <<>>
    IN  Flatten([k \in DOMAIN constraints |-> comment(constraints[k])])

\* DB2IceConverter._convert_temp_table: [stmt, ewis]
convert_temp_table(table, comments_on, ewi_on) ==
        Let(IF table.volatile THEN "VOLATILE" ELSE "GLOBAL TEMPORARY", LAMBDA original_type :
        Let(ColumnLines(table, ewi_on), LAMBDA body :
        Let(
            IF comments_on
            THEN << <<"-- Converted from DB2 ", original_type, " table: ",
                      full_name(table)>>,
                    <<"-- Kept as Snowflake TEMPORARY (Iceberg doesn't support temporary tables)">>,
                    <<"-- Table will remain session-scoped as originally intended">> >>
            ELSE <<>>, LAMBDA header :
        Let(
            IF ewi_on
            THEN << <<>>,
                    <<"-- ">> \o
                    format_ewi("SSC-EWI-DB2ICE-0030",
                               original_type \o
                                 " table kept as Snowflake TEMPORARY - Iceberg doesn't support temporary tables") >>
            ELSE <<>>, LAMBDA marker :
        Let(     header
                 \o << <<"CREATE OR REPLACE TEMPORARY TABLE ",
                         format_identifier(full_name(table)), " (">> >>
                 \o body.lines \o << <<");">> >> \o marker, LAMBDA lines :
        [stmt |-> JoinText(lines, "\n"),
         ewis |-> body.ewis + (IF ewi_on THEN 1 ELSE 0)])))))

\* DB2IceConverter._convert_table: [stmt, ewis]
convert_table(table, comments_on, ewi_on) ==
    IF table.volatile \/ table.global_temporary
    THEN convert_temp_table(table, comments_on, ewi_on)
    ELSE
          Let(ColumnLines(table, ewi_on), LAMBDA body :
          Let(
              IF comments_on
              THEN << <<"-- Converted from DB2: ", full_name(table)>> >>
                   \o (IF table.editproc # None
                       THEN << <<"-- WARNING: Original table had EDITPROC: ",
                                 table.editproc>> >>
                       ELSE <<>>)
                   \o (IF table.validproc # None
                       THEN << <<"-- WARNING: Original table had VALIDPROC: ",
                                 table.validproc>> >>
                       ELSE <<>>)
              ELSE <<>>, LAMBDA header :
          Let(generate_constraint_comments(table.constraints), LAMBDA constraint_comments :
          Let(     header
                   \o << <<"CREATE OR REPLACE ICEBERG TABLE ",
                           format_identifier(full_name(table)), " (">> >>
                   \o body.lines
                   \o << <<")">>,
                         <<"CATALOG = 'SNOWFLAKE'">>,
                         <<"EXTERNAL_VOLUME = '", "<EXTERNAL_VOLUME>", "'">>,
                         <<"BASE_LOCATION = '", generate_base_location(table), "'">> >>
                   \o (IF comments_on /\ constraint_comments # <<>>
                       THEN << <<>> >> \o constraint_comments ELSE <<>>)
                   \o << <<";">> >>, LAMBDA lines :
          [stmt |-> JoinText(lines, "\n"), ewis |-> body.ewis]))))

\* the result constructed with success = False
NewResult_Failed(assessment) ==
    [iceberg_ddl |-> <<>>, assessment |-> assessment, ewi_count |-> 0,
     tables_converted |-> 0, success |-> FALSE, error_message |-> None]

\* ConversionResult(iceberg_ddl="", assessment=...) with the dataclass defaults
NewResult(assessment) ==
    [iceberg_ddl |-> <<>>, assessment |-> assessment, ewi_count |-> 0,
     tables_converted |-> 0, success |-> TRUE, error_message |-> None]

\* DB2IceConverter.convert, from the assessment and the parsed tables on
ConvertTables(assessment, tables, comments_on, ewi_on) ==
        Let([k \in DOMAIN tables |-> convert_table(tables[k], comments_on, ewi_on)], LAMBDA converted :
        IF tables = <<>>
        THEN [NewResult(assessment) EXCEPT
                !.success = FALSE,
                !.error_message = "No valid CREATE TABLE statements found"]
        ELSE [NewResult(assessment) EXCEPT
                !.iceberg_ddl = JoinText([k \in DOMAIN converted |-> converted[k].stmt],
                                         "\n\n"),
                !.ewi_count = SumSeq([k \in DOMAIN converted |-> converted[k].ewis]),
                !.tables_converted = Len(tables)])

\* DB2IceConverter.convert: self.assessor.assess(ddl), then self.parser.parse(ddl)
convert(s, comments_on, ewi_on) ==
    ConvertTables(assess(s), parse(s).tables, comments_on, ewi_on)


(***************************************************************************)
(* SnowflakeParser (snowflake_converter.py)                                *)
(***************************************************************************)
NoSfHeader == [ok |-> FALSE, modifier |-> None, from |-> 0, to |-> 0, paren |-> 0]

TableModifiers == {"TRANSIENT", "TEMPORARY", "DYNAMIC", "EXTERNAL", "HYBRID"}

\* end (exclusive) of the run [^\s(]+ at i
RECURSIVE NameEnd(_, _)
NameEnd(s, i) ==
    IF i <= Len(s) /\ ~IsWS(s[i]) /\ s[i] # "(" THEN NameEnd(s, i + 1) ELSE i

\* the header pattern of SnowflakeParser.parse at i:
\* CREATE\s+(?:OR\s+REPLACE\s+)?(?:(TRANSIENT|..|HYBRID)\s+)?TABLE\s+
\* (?:IF\s+NOT\s+EXISTS\s+)?([^\s(]+)\s*\(
SfHeaderAt(s, i) ==
        Let(WSPlus(s, i + 1), LAMBDA a :
        Let(WSPlus(s, a + 1), LAMBDA o :
        Let( IF At(s, a) = "OR" /\ o # 0 /\ At(s, o) = "REPLACE" /\ WSPlus(s, o + 1) # 0
             THEN WSPlus(s, o + 1) ELSE a, LAMBDA r :
        Let( IF At(s, r) \in TableModifiers /\ WSPlus(s, r + 1) # 0
             THEN WSPlus(s, r + 1) ELSE r, LAMBDA t :
        Let(WSPlus(s, t + 1), LAMBDA n :
        Let(WSPlus(s, n + 1), LAMBDA x1 :
        Let(WSPlus(s, x1 + 1), LAMBDA x2 :
        Let( IF At(s, n) = "IF" /\ x1 # 0 /\ At(s, x1) = "NOT" /\ x2 # 0
                /\ At(s, x2) = "EXISTS" /\ WSPlus(s, x2 + 1) # 0
             THEN WSPlus(s, x2 + 1) ELSE n, LAMBDA e :
        Let(NameEnd(s, e), LAMBDA ne :
        Let(SkipWS(s, ne), LAMBDA p :
        IF /\ IsWord(s[i]) /\ HasSuffix(s[i], "CREATE") /\ a # 0
           /\ At(s, t) = "TABLE" /\ n # 0 /\ ne > e /\ At(s, p) = "("
        THEN [ok |-> TRUE, modifier |-> IF t # r THEN s[r] ELSE None,
              from |-> e, to |-> ne - 1, paren |-> p]
        ELSE NoSfHeader))))))))))

\* one iteration of the while loop of _extract_parenthesized_content
ExtractStep(s, st, i) ==
    IF s[i] = "(" THEN [st EXCEPT !.depth = @ + 1]
    ELSE IF s[i] = ")"
    THEN [depth |-> st.depth - 1, found |-> IF st.depth - 1 = 0 THEN i ELSE 0]
    ELSE st

\* the iterations lo..hi of the while loop, from state st
RECURSIVE ExtractLoop(_, _, _, _)
ExtractLoop(s, lo, hi, st) ==
    IF lo > hi \/ st.found # 0 THEN st
    ELSE IF lo = hi THEN ExtractStep(s, st, lo)
    ELSE     Let((lo + hi) \div 2, LAMBDA mid :
             Let(ExtractLoop(s, lo, mid, st), LAMBDA st1 :
             Strict(st1, ExtractLoop(s, mid + 1, hi, st1))))

\* SnowflakeParser._extract_parenthesized_content: the index of the matching
\* ")" (the content is text[start_pos+1 .. it-1]), 0 when None is returned
extract_parenthesized_content(text, start_pos) ==
    ExtractLoop(text, start_pos, Len(text), [depth |-> 0, found |-> 0]).found

\* one iteration of the for loop of _split_definitions
SplitDefinitionsStep(s, st, i) ==
    IF s[i] = "("
    THEN [st EXCEPT !.depth = @ + 1, !.current = Append(@, s[i])]
    ELSE IF s[i] = ")"
    THEN [st EXCEPT !.depth = @ - 1, !.current = Append(@, s[i])]
    ELSE IF s[i] = "," /\ st.depth = 0
    THEN [st EXCEPT !.current = <<>>, !.parts = Append(@, st.current)]
    ELSE [st EXCEPT !.current = Append(@, s[i])]

RECURSIVE SplitDefinitionsLoop(_, _, _, _)
SplitDefinitionsLoop(s, lo, hi, st) ==
    IF lo > hi THEN st
    ELSE IF lo = hi THEN SplitDefinitionsStep(s, st, lo)
    ELSE     Let((lo + hi) \div 2, LAMBDA mid :
             Let(SplitDefinitionsLoop(s, lo, mid, st), LAMBDA st1 :
             Strict(st1, SplitDefinitionsLoop(s, mid + 1, hi, st1))))

\* SnowflakeParser._split_definitions
split_definitions(text) ==
        Let(   SplitDefinitionsLoop(text, 1, Len(text),
                                    [current |-> <<>>, depth |-> 0, parts |-> <<>>]), LAMBDA end :
        IF end.current # <<>> THEN Append(end.parts, end.current) ELSE end.parts)

\* \((.*?)\) searched in s from position i on: [ok, from, to, end]; "." does
\* not match a newline
LazyGroupFrom(s, i) ==
    LET close(o) == FirstClose(s, o + 1)
        good(o) == /\ s[o] = "(" /\ close(o) # 0
                   /\ \A j \in (o + 1)..(close(o) - 1) : s[j] # "\n"
    IN  Let({o \in Max(i, 1)..Len(s) : good(o)}, LAMBDA hits :
        IF hits = {} THEN [ok |-> FALSE, from |-> 0, to |-> 0, end |-> 0]
        ELSE     Let(MinOf(hits), LAMBDA o :
                 [ok |-> TRUE, from |-> o + 1, to |-> close(o) - 1, end |-> close(o) + 1]))

\* \((.*?)\) at exactly position i
LazyGroupAt(s, i) ==
        Let(LazyGroupFrom(s, i), LAMBDA g :
        IF g.ok /\ g.from = i + 1 THEN g
        ELSE [ok |-> FALSE, from |-> 0, to |-> 0, end |-> 0])

\* str.strip('"') of a stripped piece of text, as one string
StripDoubleQuotes(toks) ==
    IF Len(toks) = 1 THEN CleanWord(toks[1]) ELSE Join(toks)

\* [c.strip().strip('"') for c in group.split(',')]
SfColumnList(group) ==
        Let(SplitComma(group, <<>>, <<>>), LAMBDA pieces :
        [k \in 1..Len(pieces) |-> StripDoubleQuotes(Strip(pieces[k]))])

\* KW1\s+KW2\s*\((.*?)\) searched in s: the first match
SfTwoWordGroup(s, w1, w2) ==
    LET grp(i) == LazyGroupAt(s, SkipWS(s, WSPlus(s, i + 1) + 1))
    IN  Let(    {i \in 1..Len(s) :
                    /\ IsWord(s[i]) /\ HasSuffix(s[i], w1)
                    /\ WSPlus(s, i + 1) # 0
                    /\ At(s, WSPlus(s, i + 1)) = w2
                    /\ grp(i).ok}, LAMBDA hits :
        IF hits = {} THEN LazyGroupAt(s, 0) ELSE grp(MinOf(hits)))

\* KW\s*\((.*?)\) searched in s: the first match
SfOneWordGroup(s, w) ==
    LET grp(i) == LazyGroupAt(s, SkipWS(s, i + 1))
    IN  Let({i \in 1..Len(s) : IsWord(s[i]) /\ HasSuffix(s[i], w) /\ grp(i).ok}, LAMBDA hits :
        IF hits = {} THEN LazyGroupAt(s, 0) ELSE grp(MinOf(hits)))

\* FOREIGN\s+KEY\s*\((.*?)\)\s*REFERENCES\s+([^\s(]+)\s*\((.*?)\) searched in s
SfForeignKeyMatch(s) ==
        Let(    [ok |-> FALSE, columns |-> <<>>, ref_table |-> None,
                 ref_columns |-> <<>>], LAMBDA fail :
    LET try(i) ==
                Let(WSPlus(s, i + 1), LAMBDA k :
                Let(LazyGroupAt(s, SkipWS(s, k + 1)), LAMBDA g1 :
                Let(SkipWS(s, g1.end), LAMBDA r :
                Let(WSPlus(s, r + 1), LAMBDA t :
                Let(NameEnd(s, t), LAMBDA te :
                Let(LazyGroupAt(s, SkipWS(s, te)), LAMBDA g3 :
                IF /\ IsWord(s[i]) /\ HasSuffix(s[i], "FOREIGN")
                   /\ k # 0 /\ At(s, k) = "KEY" /\ g1.ok
                   /\ At(s, r) = "REFERENCES" /\ t # 0 /\ te > t /\ g3.ok
                THEN [ok |-> TRUE,
                      columns |-> SfColumnList(SubSeq(s, g1.from, g1.to)),
                      ref_table |-> Join(SubSeq(s, t, te - 1)),
                      ref_columns |-> SfColumnList(SubSeq(s, g3.from, g3.to))]
                ELSE fail))))))
    IN  Let({i \in 1..Len(s) : try(i).ok}, LAMBDA hits :
        IF hits = {} THEN fail ELSE try(MinOf(hits))))


\* end (exclusive) of the run [^\s,]+ at i
RECURSIVE ValueEnd(_, _)
ValueEnd(s, i) ==
    IF i <= Len(s) /\ ~IsWS(s[i]) /\ s[i] # "," THEN ValueEnd(s, i + 1) ELSE i

\* W1\s+..\s+Wn\s+([^\s,]+) searched in s: the text of the group of the first
\* match, None when nothing matches
RECURSIVE WordsAt(_, _, _)
WordsAt(s, i, words) ==
    IF words = <<>> THEN i
    ELSE IF i # 0 /\ At(s, i) = Head(words) THEN WordsAt(s, WSPlus(s, i + 1), Tail(words))
    ELSE 0

ValueAfter(s, words) ==
    LET start(i) == IF IsWord(s[i]) /\ HasSuffix(s[i], Head(words))
                    THEN WordsAt(s, WSPlus(s, i + 1), Tail(words)) ELSE 0
    IN  Let({i \in 1..Len(s) : start(i) # 0 /\ ValueEnd(s, start(i)) > start(i)}, LAMBDA hits :
        IF hits = {} THEN None
        ELSE     Let( start(MinOf(hits)), LAMBDA v :    Join(SubSeq(s, v, ValueEnd(s, v) - 1))))

\* '([^']*)' at i: [ok, text]
QuotedAt(s, i) ==
        Let({j \in (i + 1)..Len(s) : s[j] = "'"}, LAMBDA hits :
        IF At(s, i) = "'" /\ hits # {}
        THEN [ok |-> TRUE, text |-> Join(SubSeq(s, i + 1, MinOf(hits) - 1))]
        ELSE [ok |-> FALSE, text |-> None])

\* COMMENT\s+'([^']*)' (a column) or COMMENT\s*=\s*'([^']*)' (table options)
\* searched in s
CommentOf(s, with_equals) ==
    LET quote(i) ==
            IF with_equals
            THEN IF At(s, SkipWS(s, i + 1)) = "="
                 THEN QuotedAt(s, SkipWS(s, SkipWS(s, i + 1) + 1))
                 ELSE QuotedAt(s, 0)
            ELSE QuotedAt(s, WSPlus(s, i + 1))
    IN  Let(    {i \in 1..Len(s) :
                    IsWord(s[i]) /\ HasSuffix(s[i], "COMMENT") /\ quote(i).ok}, LAMBDA hits :
        IF hits = {} THEN None ELSE quote(MinOf(hits)).text)

\* (?:IDENTITY|AUTOINCREMENT)\s*(?:\(([^)]+)\))? searched in s, behind the
\* test "'IDENTITY' in upper_rest or 'AUTOINCREMENT' in upper_rest"
IdentityOf(s) ==
    LET kw(t) == Contains(t, "IDENTITY") \/ Contains(t, "AUTOINCREMENT")
        ends(t) == HasSuffix(t, "IDENTITY") \/ HasSuffix(t, "AUTOINCREMENT")
    IN  Let({i \in 1..Len(s) : IsWord(s[i]) /\ kw(s[i])}, LAMBDA hits :
        IF hits = {} THEN None
        ELSE     Let(MinOf(hits), LAMBDA i :
                 Let(ParenGroupAt(s, SkipWS(s, i + 1)), LAMBDA g :
                 IF ends(s[i]) /\ g.ok THEN Join(SubSeq(s, g.from, g.to))
                 ELSE "1,1")))

\* a run of \w characters: a word without double quotes
IsPlainWord(t) == IsWord(t) /\ ~\E q \in QuotedWords : q[1] = t

NoSfColumn ==
    [name |-> None, data_type |-> <<>>, nullable |-> TRUE, default |-> None,
     identity |-> None, comment |-> None, collate |-> None,
     masking_policy |-> None]

\* SnowflakeParser._parse_column: [ok, column]; data_type is kept as the
\* tokens of the upper-cased type text
sf_parse_column(col_def) ==
        Let(\E q \in QuotedWords : q[1] = col_def[1], LAMBDA quoted :
        Let(IF quoted THEN 2 ELSE NonSpaceEnd(col_def, 1), LAMBDA n :
        Let(WSPlus(col_def, n), LAMBDA r :
        Let(IF quoted THEN CleanWord(col_def[1]) ELSE Join(SubSeq(col_def, 1, n - 1)), LAMBDA name :
        Let(    IF r = 0 THEN <<>>
                ELSE IF quoted THEN SubSeq(col_def, r, LineEnd(col_def, r) - 1)
                ELSE Drop(col_def, r), LAMBDA rest :
        Let(ParenGroupAt(rest, SkipWS(rest, 2)), LAMBDA g :
        Let(IF g.ok THEN g.end ELSE 2, LAMBDA type_end :
        Let(Strip(Drop(rest, type_end)), LAMBDA after :
        IF r = 0 \/ rest = <<>> \/ ~IsPlainWord(rest[1])
        THEN [ok |-> FALSE, column |-> NoSfColumn]
        ELSE [ok |-> TRUE,
              column |->
                [name |-> name,
                 data_type |-> [k \in 1..(type_end - 1) |-> Upper(rest[k])],
                 nullable |-> ~InText(after, <<"NOT", "NULL">>),
                 default |-> ValueAfter(after, <<"DEFAULT">>),
                 identity |-> IdentityOf(after),
                 comment |-> CommentOf(after, FALSE),
                 collate |-> ValueAfter(after, <<"COLLATE">>),
                 masking_policy |-> ValueAfter(after, <<"WITH", "MASKING", "POLICY">>)]]))))))))

\* str.startswith of a one- or two-word keyword
SfStartsWith(part, words) ==
    IF Len(words) = 1 THEN HasPrefix(part[1], words[1])
    ELSE part[1] = words[1] /\ At(part, 2) = " " /\ Len(part) >= 3
         /\ HasPrefix(part[3], words[2])

NoSfTable ==
    [name |-> None, schema |-> None, database |-> None, columns |-> <<>>,
     cluster_by |-> <<>>, primary_key |-> <<>>, foreign_keys |-> <<>>,
     unique_keys |-> <<>>, comment |-> None, transient |-> FALSE,
     temporary |-> FALSE, dynamic |-> FALSE, external |-> FALSE, hybrid |-> FALSE,
     data_retention_days |-> NoneInt, change_tracking |-> FALSE]

\* one iteration of the for loop of SnowflakeParser._parse_columns_and_constraints
SfPartStep(table, raw) ==
        Let(Strip(raw), LAMBDA part :
        Let(LazyGroupFrom(part, 1), LAMBDA first :
    LET cols(g) == SfColumnList(SubSeq(part, g.from, g.to))
    IN  Let(SfTwoWordGroup(part, "PRIMARY", "KEY"), LAMBDA pk :
        Let(SfForeignKeyMatch(part), LAMBDA fk :
        Let(SfOneWordGroup(part, "UNIQUE"), LAMBDA uq :
        Let(       IF fk.ok
                   THEN [table EXCEPT !.foreign_keys =
                           Append(@, [columns |-> fk.columns, ref_table |-> fk.ref_table,
                                      ref_columns |-> fk.ref_columns])]
                   ELSE table, LAMBDA with_fk :
        Let(sf_parse_column(part), LAMBDA col :
        IF part = <<>> THEN table
        ELSE IF SfStartsWith(part, <<"PRIMARY", "KEY">>)
        THEN IF first.ok THEN [table EXCEPT !.primary_key = cols(first)] ELSE table
        ELSE IF SfStartsWith(part, <<"FOREIGN", "KEY">>) THEN with_fk
        ELSE IF SfStartsWith(part, <<"UNIQUE">>)
        THEN IF first.ok THEN [table EXCEPT !.unique_keys = Append(@, cols(first))]
             ELSE table
        ELSE IF SfStartsWith(part, <<"CONSTRAINT">>)
        THEN IF InText(part, <<"PRIMARY", "KEY">>)
             THEN IF pk.ok THEN [table EXCEPT !.primary_key = cols(pk)] ELSE table
             ELSE IF InText(part, <<"FOREIGN", "KEY">>) THEN with_fk
             ELSE IF InText(part, <<"UNIQUE">>)
             THEN IF uq.ok THEN [table EXCEPT !.unique_keys = Append(@, cols(uq))]
                  ELSE table
             ELSE table
        ELSE IF col.ok THEN [table EXCEPT !.columns = Append(@, col.column)]
        ELSE table)))))))

RECURSIVE SfPartsLoop(_, _, _)
SfPartsLoop(parts, k, table) ==
    IF k > Len(parts) THEN table
    ELSE SfPartsLoop(parts, k + 1, SfPartStep(table, parts[k]))

\* SnowflakeParser._parse_columns_and_constraints
sf_parse_columns_and_constraints(table, column_defs) ==
    SfPartsLoop(split_definitions(column_defs), 1, table)


\* KW\s*=\s* searched in s, followed by a value token accepted by Value(_):
\* the position of the value of the first match, 0 if none
AssignedAt(s, kw, Value(_)) ==
    LET val(i) == IF At(s, SkipWS(s, i + 1)) = "="
                  THEN SkipWS(s, SkipWS(s, i + 1) + 1) ELSE 0
    IN  Let(    {i \in 1..Len(s) :
                    /\ IsWord(s[i]) /\ HasSuffix(s[i], kw)
                    /\ val(i) # 0 /\ val(i) <= Len(s) /\ Value(s[val(i)])}, LAMBDA hits :
        IF hits = {} THEN 0 ELSE val(MinOf(hits)))

\* SnowflakeParser._parse_table_options
sf_parse_table_options(table, options) ==
        Let(SfTwoWordGroup(options, "CLUSTER", "BY"), LAMBDA cluster :
        Let(AssignedAt(options, "DATA_RETENTION_TIME_IN_DAYS", IsNumber), LAMBDA retention :
    LET boolean(t) == HasPrefix(t, "TRUE") \/ HasPrefix(t, "FALSE")
    IN  Let(AssignedAt(options, "CHANGE_TRACKING", boolean), LAMBDA change :
        Let(CommentOf(options, TRUE), LAMBDA comment :
        [table EXCEPT
           !.cluster_by = IF cluster.ok
                          THEN SfColumnList(SubSeq(options, cluster.from, cluster.to))
                          ELSE @,
           !.comment = IF comment # None THEN comment ELSE @,
           !.data_retention_days = IF retention # 0 THEN NumVal[options[retention]]
                                   ELSE @,
           !.change_tracking = IF InText(options, <<"CHANGE_TRACKING">>) /\ change # 0
                               THEN HasPrefix(options[change], "TRUE")
                               ELSE @]))))

\* full_name.replace('"', '').split('.')
RECURSIVE SplitDots(_, _, _)
SplitDots(s, current, parts) ==
    IF s = <<>> THEN Append(parts, current)
    ELSE IF Head(s) = "." THEN SplitDots(Tail(s), "", Append(parts, current))
    ELSE SplitDots(Tail(s), current \o CleanWord(Head(s)), parts)

\* the SnowflakeTable built at the head of _parse_table from the parts of the
\* name and the modifier
SfNamedTable(name_parts, modifier) ==
    [NoSfTable EXCEPT
       !.name = name_parts[Len(name_parts)],
       !.schema = IF Len(name_parts) >= 2 THEN name_parts[Len(name_parts) - 1]
                  ELSE None,
       !.database = IF Len(name_parts) >= 3 THEN name_parts[Len(name_parts) - 2]
                    ELSE None,
       !.transient = (modifier = "TRANSIENT"),
       !.temporary = (modifier = "TEMPORARY"),
       !.dynamic = (modifier = "DYNAMIC"),
       !.external = (modifier = "EXTERNAL"),
       !.hybrid = (modifier = "HYBRID")]

\* SnowflakeParser._parse_table
parse_table(full_name_toks, column_defs, options, modifier) ==
    sf_parse_table_options(
        sf_parse_columns_and_constraints(
            SfNamedTable(SplitDots(full_name_toks, "", <<>>), modifier), column_defs),
        options)

\* rest[:semicolon_pos] if semicolon_pos != -1 else rest
SfTableOptions(rest) ==
    IF \A j \in 1..Len(rest) : rest[j] # ";" THEN rest
    ELSE SubSeq(rest, 1, MinOf({j \in 1..Len(rest) : rest[j] = ";"}) - 1)

\* the body of the for loop of SnowflakeParser.parse once
\* _extract_parenthesized_content has returned: close is the index of the
\* matching ")" of the match h, 0 when None was returned
SfParseExtracted(ddl_toks, h, close, tables) ==
    IF close = 0 THEN tables
    ELSE Append(tables,
                parse_table(SubSeq(ddl_toks, h.from, h.to),
                            SubSeq(ddl_toks, h.paren + 1, close - 1),
                            SfTableOptions(Strip(Drop(ddl_toks, close + 1))),
                            h.modifier))

\* the body of the for loop of SnowflakeParser.parse for the match h
SfParseMatch(ddl_toks, h, tables) ==
    SfParseExtracted(ddl_toks, h, extract_parenthesized_content(ddl_toks, h.paren),
                     tables)

\* the for loop of SnowflakeParser.parse over re.finditer: hits are the
\* positions not yet passed where the header pattern matches; the search
\* resumes behind the "(" of a match
RECURSIVE SfParseLoop(_, _, _)
SfParseLoop(ddl_toks, hits, tables) ==
    IF hits = {} THEN tables
    ELSE SfParseLoop(ddl_toks,
                     {j \in hits : j > SfHeaderAt(ddl_toks, MinOf(hits)).paren},
                     SfParseMatch(ddl_toks, SfHeaderAt(ddl_toks, MinOf(hits)), tables))

\* SnowflakeParser.parse
sf_parse(ddl_toks) ==
    SfParseLoop(ddl_toks, {i \in 1..Len(ddl_toks) : SfHeaderAt(ddl_toks, i).ok}, <<>>)


(***************************************************************************)
(* SnowflakeToIcebergConverter (snowflake_converter.py)                    *)
(***************************************************************************)
\* truthiness of an Optional[str]
NonEmpty(x) == x # None /\ x # ""

\* SnowflakeTable.full_name, as its parts
SfNameParts(table) ==
    (IF NonEmpty(table.database) THEN <<table.database>> ELSE <<>>)
      \o (IF NonEmpty(table.schema) THEN <<table.schema>> ELSE <<>>)
      \o <<table.name>>

sf_full_name(table) == JoinWith(SfNameParts(table), ".")

\* SnowflakeToIcebergConverter._format_identifier, with its own reserved set
sf_reserved ==
    {"ORDER", "GROUP", "SELECT", "FROM", "WHERE", "TABLE", "INDEX", "CREATE",
     "DROP", "ALTER", "INSERT", "UPDATE", "DELETE", "VALUES", "AND", "OR", "NOT",
     "NULL", "TRUE", "FALSE", "DATE", "TIME", "TIMESTAMP"}

sf_format_identifier(identifier) ==
    IF Upper(identifier) \in sf_reserved \/ ~IsIdentifier(identifier)
    THEN "\"" \o identifier \o "\""
    ELSE Upper(identifier)

\* SnowflakeToIcebergConverter._format_name
format_name(table) ==
        Let(SfNameParts(table), LAMBDA parts :
        JoinWith([k \in DOMAIN parts |-> Upper(parts[k])], "."))

ConversionIssue(code, severity, message, suggestion, table_name, column_name) ==
    [code |-> code, severity |-> severity, message |-> message,
     suggestion |-> suggestion, table_name |-> table_name,
     column_name |-> column_name]

TYPE_CONVERSIONS ==
    [t \in {"VARIANT", "OBJECT", "ARRAY", "GEOGRAPHY", "GEOMETRY"} |->
       CASE t = "VARIANT" ->
              <<"VARCHAR", "SSC-EWI-SF2ICE-0001",
                "VARIANT not supported in Iceberg - converted to VARCHAR. Parse JSON at query time or use structured types">>
         [] t = "OBJECT" ->
              <<"VARCHAR", "SSC-EWI-SF2ICE-0002",
                "Semi-structured OBJECT not supported in Iceberg - converted to VARCHAR. Use structured OBJECT with defined schema instead">>
         [] t = "ARRAY" ->
              <<"VARCHAR", "SSC-EWI-SF2ICE-0003",
                "Semi-structured ARRAY not supported in Iceberg - converted to VARCHAR. Use structured ARRAY with defined element type instead">>
         [] t = "GEOGRAPHY" ->
              <<"VARCHAR", "SSC-EWI-SF2ICE-0004",
                "GEOGRAPHY not supported in Iceberg - converted to VARCHAR. Store as WKT/GeoJSON string">>
         [] t = "GEOMETRY" ->
              <<"VARCHAR", "SSC-EWI-SF2ICE-0005",
                "GEOMETRY not supported in Iceberg - converted to VARCHAR. Store as WKT/GeoJSON string">>]

TIMESTAMP_TYPES ==
    [t \in {"TIME", "TIMESTAMP", "TIMESTAMP_NTZ", "TIMESTAMP_LTZ", "TIMESTAMP_TZ",
            "DATETIME"} |->
       CASE t = "TIME" ->
              <<"TIME(6)", "SSC-EWI-SF2ICE-0006",
                "TIME precision adjusted to 6 (microseconds) for Iceberg compatibility">>
         [] t = "TIMESTAMP" ->
              <<"TIMESTAMP_NTZ(6)", "SSC-EWI-SF2ICE-0007",
                "TIMESTAMP precision adjusted to 6 (microseconds) for Iceberg compatibility">>
         [] t = "TIMESTAMP_NTZ" ->
              <<"TIMESTAMP_NTZ(6)", "SSC-EWI-SF2ICE-0007",
                "TIMESTAMP_NTZ precision adjusted to 6 for Iceberg compatibility">>
         [] t = "TIMESTAMP_LTZ" ->
              <<"TIMESTAMP_LTZ(6)", "SSC-EWI-SF2ICE-0008",
                "TIMESTAMP_LTZ precision adjusted to 6 for Iceberg compatibility">>
         [] t = "TIMESTAMP_TZ" ->
              <<"TIMESTAMP_LTZ(6)", "SSC-EWI-SF2ICE-0009",
                "TIMESTAMP_TZ converted to TIMESTAMP_LTZ(6) for Iceberg compatibility">>
         [] t = "DATETIME" ->
              <<"TIMESTAMP_NTZ(6)", "SSC-EWI-SF2ICE-0007",
                "DATETIME converted to TIMESTAMP_NTZ(6) for Iceberg compatibility">>]

UNSUPPORTED_FEATURES ==
    [f \in {"cluster_by", "identity", "masking_policy", "collate"} |->
       CASE f = "cluster_by" ->
              <<"SSC-EWI-SF2ICE-0012",
                "CLUSTER BY not directly supported - Iceberg uses different optimization">>
         [] f = "identity" ->
              <<"SSC-EWI-SF2ICE-0015",
                "IDENTITY/AUTOINCREMENT not supported in Iceberg tables">>
         [] f = "masking_policy" ->
              <<"SSC-EWI-SF2ICE-0016",
                "Masking policies need to be re-applied after conversion">>
         [] f = "collate" ->
              <<"SSC-EWI-SF2ICE-0017",
                "COLLATE clause not supported in Iceberg tables">>]

\* re.search(r'\((\d+)\)', data_type): the precision, NoneInt when absent
CurrentPrecision(data_type) ==
        Let(    {i \in 1..(Len(data_type) - 2) :
                    /\ data_type[i] = "(" /\ IsNumber(data_type[i + 1])
                    /\ data_type[i + 2] = ")"}, LAMBDA hits :
        IF hits = {} THEN NoneInt ELSE NumVal[data_type[MinOf(hits) + 1]])

\* SnowflakeToIcebergConverter._convert_column: [line, ewis, issues]
sf_convert_column(col, table_name, ewi_on) ==
        Let(col.data_type[1], LAMBDA base_type :
        Let(base_type \in DOMAIN TYPE_CONVERSIONS, LAMBDA unsupported :
        Let(~unsupported /\ base_type \in DOMAIN TIMESTAMP_TYPES, LAMBDA temporal :
        Let(    IF unsupported THEN TYPE_CONVERSIONS[base_type]
                ELSE TIMESTAMP_TYPES[base_type], LAMBDA conv :
        Let(IF unsupported \/ temporal THEN conv[1] ELSE Join(col.data_type), LAMBDA data_type :
        Let(CurrentPrecision(col.data_type), LAMBDA current_precision :
    LET issue(code, severity, msg, suggestion) ==
            ConversionIssue(code, severity, msg, suggestion, table_name, col.name)
    IN  Let(
            IF unsupported /\ ewi_on
            THEN << [marker |-> format_ewi(conv[2], conv[3]),
                     issue |-> issue(conv[2], "critical", conv[3], None)] >>
            ELSE IF temporal /\ current_precision # NoneInt /\ current_precision # 6
                    /\ ewi_on
            THEN << [marker |-> format_ewi(conv[2], conv[3]),
                     issue |-> issue(conv[2], "info", conv[3], None)] >>
            ELSE <<>>, LAMBDA type_part :
        Let(UNSUPPORTED_FEATURES["identity"], LAMBDA identity :
        Let(
            IF NonEmpty(col.identity) /\ ewi_on
            THEN << [marker |-> format_ewi(identity[1], identity[2]),
                     issue |-> issue(identity[1], "warning", identity[2],
                                     "Use application-generated IDs or sequences")] >>
            ELSE <<>>, LAMBDA identity_part :
        Let(UNSUPPORTED_FEATURES["masking_policy"], LAMBDA masking :
        Let(
            IF NonEmpty(col.masking_policy) /\ ewi_on
            THEN << [marker |-> format_ewi(masking[1],
                                           masking[2] \o ": " \o col.masking_policy),
                     issue |-> issue(masking[1], "warning", masking[2],
                                     "Re-apply masking policy " \o col.masking_policy
                                       \o " after conversion")] >>
            ELSE <<>>, LAMBDA masking_part :
        Let(UNSUPPORTED_FEATURES["collate"], LAMBDA collate :
        Let(
            IF NonEmpty(col.collate) /\ ewi_on
            THEN << [marker |-> format_ewi(collate[1],
                                           collate[2] \o ": " \o col.collate),
                     issue |-> issue(collate[1], "info", collate[2], None)] >>
            ELSE <<>>, LAMBDA collate_part :
        Let(type_part \o identity_part \o masking_part \o collate_part, LAMBDA found :
        Let(    <<"    ", sf_format_identifier(col.name), " ", data_type>>
                \o (IF ~col.nullable THEN <<" ", "NOT NULL">> ELSE <<>>), LAMBDA line :
        [line |-> line \o Flatten([k \in DOMAIN found |->
                                     <<"\n", "        ">> \o found[k].marker]),
         ewis |-> Len(found),
         issues |-> [k \in DOMAIN found |-> found[k].issue]])))))))))))))))

\* SnowflakeToIcebergConverter._format_standard_column
format_standard_column(col) ==
    <<"    ", sf_format_identifier(col.name), " ", Join(col.data_type)>>
      \o (IF ~col.nullable THEN <<" ", "NOT NULL">> ELSE <<>>)
      \o (IF NonEmpty(col.identity) THEN <<" ", "AUTOINCREMENT">> ELSE <<>>)
      \o (IF NonEmpty(col.default) THEN <<" ", "DEFAULT ", col.default>> ELSE <<>>)


\* the column loop and the primary-key line of _convert_table and
\* _keep_as_standard_table, from the converted columns: the lines
SfColumnLines(table, col_lines) ==
        Let(Len(table.columns), LAMBDA n :
        Let(          [k \in DOMAIN col_lines |->
                         IF k < n \/ table.primary_key # <<>>
                         THEN col_lines[k] \o <<",">> ELSE col_lines[k]], LAMBDA with_comma :
        Let(table.primary_key, LAMBDA pk :
        Let(
            IF pk # <<>>
            THEN << <<"    PRIMARY KEY (",
                      JoinWith([k \in DOMAIN pk |-> sf_format_identifier(pk[k])], ", "),
                      ")">> >>
            ELSE <<>>, LAMBDA pk_lines :
        with_comma \o pk_lines))))

\* SnowflakeToIcebergConverter._keep_as_standard_table: [stmt, ewis, issues]
keep_as_standard_table(table, table_type, comments_on) ==
        Let(table_type # "TRANSIENT", LAMBDA temporary :
        Let(           IF temporary THEN "Iceberg does not support temporary tables"
                       ELSE "Iceberg tables always have durability (no transient option)", LAMBDA reason_main :
        Let(
            IF temporary THEN "The table will remain session-scoped as originally intended"
            ELSE "The table will remain without Fail-safe as originally intended", LAMBDA reason_detail :
        Let(IF temporary THEN "SSC-EWI-SF2ICE-0020" ELSE "SSC-EWI-SF2ICE-0021", LAMBDA ewi_code :
        Let(
            IF temporary
            THEN "Table will remain session-scoped. Consider if temporary table is needed in target architecture."
            ELSE "Table will remain transient (no Fail-safe). Consider if transient behavior is needed or if Iceberg durability is acceptable.", LAMBDA suggestion :
        Let(
            IF comments_on
            THEN << <<"-- ", table_type,
                      " table kept as Snowflake Standard (not converted to Iceberg)">>,
                    <<"-- Reason: ", reason_main>>,
                    <<"-- ", reason_detail>> >>
            ELSE <<>>, LAMBDA header :
        Let(     header
                 \o << <<"CREATE OR REPLACE ", table_type, " TABLE ",
                         format_name(table), " (">> >>
                 \o SfColumnLines(table, [k \in DOMAIN table.columns |->
                                            format_standard_column(table.columns[k])])
                 \o << <<");">> >>, LAMBDA lines :
        [stmt |-> JoinText(lines, "\n"),
         ewis |-> 0,
         issues |-> << ConversionIssue(ewi_code, "info",
                                       table_type \o " table kept as Snowflake Standard - "
                                         \o reason_main,
                                       suggestion, sf_full_name(table), None) >>])))))))

\* a skip that records nothing
skip_unsupported_table_Silent(table, table_type, reason, comments_on) ==
    [stmt |-> <<>>, ewis |-> 0, issues |-> <<>>]

\* SnowflakeToIcebergConverter._skip_unsupported_table: [stmt, ewis, issues]
skip_unsupported_table(table, table_type, reason, comments_on) ==
        Let(        CASE table_type = "DYNAMIC" -> "SSC-EWI-SF2ICE-0022"
                      [] table_type = "EXTERNAL" -> "SSC-EWI-SF2ICE-0023"
                      [] table_type = "HYBRID" -> "SSC-EWI-SF2ICE-0024"
                      [] OTHER -> "SSC-EWI-SF2ICE-0025", LAMBDA ewi_code :
        Let(
            IF comments_on
            THEN << <<"-- !!!! ", table_type,
                      " TABLE SKIPPED - Cannot convert to Iceberg !!!!">>,
                    <<"-- Table: ", sf_full_name(table)>>,
                    <<"-- Reason: ", reason>>,
                    <<"-- Action required: Review and handle this table manually">> >>
            ELSE <<>>, LAMBDA lines :
        [stmt |-> JoinText(lines, "\n"),
         ewis |-> 1,
         issues |-> << ConversionIssue(ewi_code, "critical",
                                       table_type \o " table cannot be converted to Iceberg: "
                                         \o sf_full_name(table),
                                       reason, sf_full_name(table), None) >>]))

\* SnowflakeToIcebergConverter._generate_base_location
sf_generate_base_location(table) ==
    Lower(IF NonEmpty(table.schema) THEN table.schema ELSE "default")
      \o "/" \o Lower(table.name)

\* the comments of _convert_table for the features Iceberg does not keep
SfFeatureComments(table) ==
    LET fk(k) == table.foreign_keys[k]
        uk(k) == table.unique_keys[k]
    IN  (IF table.cluster_by # <<>>
         THEN << <<"-- Original CLUSTER BY: (", JoinWith(table.cluster_by, ", "), ")">>,
                 <<"-- NOTE: Iceberg uses automatic optimization instead of explicit clustering">> >>
         ELSE <<>>)
        \o (IF Truthy(table.data_retention_days)
            THEN << <<"-- Original DATA_RETENTION_TIME_IN_DAYS: ",
                      ToString(table.data_retention_days)>> >>
            ELSE <<>>)
        \o (IF table.change_tracking
            THEN << <<"-- Original CHANGE_TRACKING: TRUE">> >> ELSE <<>>)
        \o Flatten([k \in DOMAIN table.foreign_keys |->
              << <<"-- FOREIGN KEY (", JoinWith(fk(k).columns, ", "), ") REFERENCES ",
                   fk(k).ref_table, "(", JoinWith(fk(k).ref_columns, ", "), ")">>,
                 <<"-- NOTE: Foreign keys are not enforced in Iceberg tables">> >>])
        \o Flatten([k \in DOMAIN table.unique_keys |->
              << <<"-- UNIQUE (", JoinWith(uk(k), ", "), ")">>,
                 <<"-- NOTE: UNIQUE constraints are not enforced in Iceberg tables">> >>])
        \o (IF NonEmpty(table.comment)
            THEN << <<"-- Table comment: ", table.comment>> >> ELSE <<>>)

\* a dispatch that looks at the dynamic, external and hybrid flags first
sf_convert_table_SkipFirst(table, comments_on, ewi_on) ==
    IF table.dynamic THEN skip_unsupported_table(table, "DYNAMIC", "", comments_on)
    ELSE IF table.external
    THEN skip_unsupported_table(table, "EXTERNAL", "", comments_on)
    ELSE IF table.hybrid THEN skip_unsupported_table(table, "HYBRID", "", comments_on)
    ELSE keep_as_standard_table(table,
                                IF table.temporary THEN "TEMPORARY" ELSE "TRANSIENT",
                                comments_on)

\* SnowflakeToIcebergConverter._convert_table: [stmt, ewis, issues]
sf_convert_table(table, comments_on, ewi_on) ==
    IF table.temporary THEN keep_as_standard_table(table, "TEMPORARY", comments_on)
    ELSE IF table.transient THEN keep_as_standard_table(table, "TRANSIENT", comments_on)
    ELSE IF table.dynamic
    THEN skip_unsupported_table(table, "DYNAMIC",
           "Dynamic tables auto-refresh from a query and cannot be converted to Iceberg. Consider creating the underlying source tables as Iceberg instead.",
           comments_on)
    ELSE IF table.external
    THEN skip_unsupported_table(table, "EXTERNAL",
           "External tables reference data in external stages. Consider using Iceberg tables with the same external volume instead.",
           comments_on)
    ELSE IF table.hybrid
    THEN skip_unsupported_table(table, "HYBRID",
           "Hybrid tables are optimized for HTAP workloads. Iceberg tables have different performance characteristics for mixed workloads.",
           comments_on)
    ELSE
          Let(    [k \in DOMAIN table.columns |->
                     sf_convert_column(table.columns[k], sf_full_name(table), ewi_on)], LAMBDA cols :
          Let(UNSUPPORTED_FEATURES["cluster_by"], LAMBDA cluster :
          Let(SfFeatureComments(table), LAMBDA comments :
          Let(
              IF comments_on /\ table.cluster_by # <<>> /\ ewi_on
              THEN << ConversionIssue(cluster[1], "info", cluster[2],
                                      "Consider Iceberg table optimization strategies",
                                      sf_full_name(table), None) >>
              ELSE <<>>, LAMBDA cluster_issues :
          Let(     (IF comments_on
                    THEN << <<"-- Converted from Snowflake Standard: ",
                              sf_full_name(table)>> >>
                    ELSE <<>>)
                   \o << <<"CREATE OR REPLACE ICEBERG TABLE ", format_name(table), " (">> >>
                   \o SfColumnLines(table, [k \in DOMAIN cols |-> cols[k].line])
                   \o << <<")">>,
                         <<"CATALOG = 'SNOWFLAKE'">>,
                         <<"EXTERNAL_VOLUME = '", "<EXTERNAL_VOLUME>", "'">>,
                         <<"BASE_LOCATION = '", sf_generate_base_location(table), "'">> >>
                   \o (IF comments_on /\ comments # <<>>
                       THEN << <<>> >> \o comments ELSE <<>>)
                   \o << <<";">> >>, LAMBDA lines :
          [stmt |-> JoinText(lines, "\n"),
           ewis |-> SumSeq([k \in DOMAIN cols |-> cols[k].ewis]),
           issues |-> Flatten([k \in DOMAIN cols |-> cols[k].issues]) \o cluster_issues])))))

\* nothing converted yet
NoConverted == [stmt |-> <<>>, ewis |-> 0, issues |-> <<>>]

\* SnowflakeToIcebergResult(iceberg_ddl="") with the dataclass defaults
NewSfResult ==
    [iceberg_ddl |-> <<>>, tables_converted |-> 0, ewi_count |-> 0,
     success |-> TRUE, error_message |-> None, issues |-> <<>>]

\* SnowflakeToIcebergConverter.convert
sf_convert(ddl_toks, comments_on, ewi_on) ==
        Let(sf_parse(ddl_toks), LAMBDA tables :
        Let(         [k \in DOMAIN tables |->
                        sf_convert_table(tables[k], comments_on, ewi_on)], LAMBDA converted :
        IF tables = <<>>
        THEN [NewSfResult EXCEPT
                !.success = FALSE,
                !.error_message = "No valid CREATE TABLE statements found"]
        ELSE [NewSfResult EXCEPT
                !.iceberg_ddl = JoinText([k \in DOMAIN converted |-> converted[k].stmt],
                                         "\n\n"),
                !.tables_converted = Len(tables),
                !.ewi_count = SumSeq([k \in DOMAIN converted |-> converted[k].ewis]),
                !.issues = Flatten([k \in DOMAIN converted |-> converted[k].issues])]))

(***************************************************************************)
(* Inputs: scripts of at most MaxStmts statements drawn from a pool of     *)
(* well-formed and malformed DB2 and Snowflake statements, written in      *)
(* upper case as the source upper-cases or matches case-insensitively      *)
(***************************************************************************)
MaxStmts == 2

StmtScenario1 ==
    <<"CREATE", " ", "TABLE", " ", "S", ".", "T", " ", "(", "A", " ",
      "INTEGER", " ", "NOT", " ", "NULL", ",", " ", "B", " ", "XML", ",",
      " ", "PRIMARY", " ", "KEY", " ", "(", "A", ")", ")">>

StmtVolatile ==
    <<"CREATE", " ", "VOLATILE", " ", "TABLE", " ", "S", ".", "T", " ", "(",
      "A", " ", "INTEGER", " ", "NOT", " ", "NULL", ",", " ", "PRIMARY", " ",
      "KEY", "(", "A", ")", ")">>

StmtDeclare ==
    <<"DECLARE", " ", "GLOBAL", " ", "TEMPORARY", " ", "TABLE", " ", "\"T\"",
      " ", "(", "A", " ", "XML", ",", " ", "B", " ", "ROWID", " ",
      "GENERATED", " ", "ALWAYS", ")">>

StmtHeavy ==
    <<"CREATE", " ", "TABLE", " ", "U", " ", "(", "A", " ", "CHAR", "(",
      "10", ")", " ", "FOR", " ", "BIT", " ", "DATA", " ", "FIELDPROC", " ",
      "FP1", ",", " ", "B", " ", "DECIMAL", "(", "10", ",", " ", "3", ")",
      " ", "GENERATED", " ", "BY", " ", "DEFAULT", ",", " ", "CONSTRAINT",
      " ", "FK1", " ", "FOREIGN", " ", "KEY", " ", "(", "A", ")", " ",
      "REFERENCES", " ", "S", ".", "T", " ", "(", "A", ")", ",", " ",
      "CHECK", " ", "(", "B", " ", ">", " ", "(", "1", ")", ")", ")", " ",
      "EDITPROC", " ", "E", ".", "P", " ", "VALIDPROC", " ", "V", " ",
      "PARTITION", " ", "BY", " ", "HASH", " ", "(", "A", ")">>

StmtMalformed ==
    <<"CREATE", " ", "TABLE", " ", "T", " ", "(", "A", " ", "INT", ",", " ",
      "B", " ", "FOO", ",", " ", "CONSTRAINT", " ", "C1", ",", " ",
      "UNIQUE_ID", " ", "INT", ",", " ", "C", " ", "VARCHAR", "(", "40", ")",
      ")">>

StmtMissingParen ==
    <<"CREATE", " ", "TABLE", " ", "A", " ", "(", "X", " ", "INT">>

StmtExtraParen ==
    <<"CREATE", " ", "TABLE", " ", "A", " ", "(", "X", " ", "INT", ")", ")">>

StmtBackslash ==
    <<"CREATE", " ", "TABLE", " ", "T", " ", "(", "A", " ", "CHAR", "(", "1",
      ")", " ", "DEFAULT", " ", "'", "\\", "'", ")">>

StmtSemicolonLiteral ==
    <<"CREATE", " ", "TABLE", " ", "T", " ", "(", "A", " ", "CHAR", "(", "1",
      ")", " ", "DEFAULT", " ", "'", ";", "'", ")">>

StmtClean ==
    <<"CREATE", " ", "TABLE", " ", "\"Order\"", " ", "(", "A", " ",
      "TIMESTAMP", "(", "6", ")", ",", " ", "DATE", " ", "DATE", ",", " ",
      "UNIQUE", " ", "(", "A", ")", ")", " ", "PARTITION", " ", "BY", " ",
      "RANGE", " ", "(", "A", ")">>

StmtCommented ==
    <<"--", " ", "c", "\n", "CREATE", " ", "GLOBAL", " ", "TEMPORARY", " ",
      "TABLE", " ", "G", " ", "(", "A", " ", "TIME", ")">>

StmtHash ==
    <<"CREATE", " ", "TABLE", " ", "H", " ", "(", "A", " ", "INT", ")", " ",
      "PARTITION", " ", "BY", " ", "HASH", " ", "(", "A", ")">>

StmtEditproc ==
    <<"CREATE", " ", "TABLE", " ", "E", " ", "(", "A", " ", "INT", ")", " ",
      "EDITPROC", " ", "EP">>

StmtValidproc ==
    <<"CREATE", " ", "TABLE", " ", "V", " ", "(", "A", " ", "INT", ",", " ",
      "FOREIGN", " ", "KEY", " ", "(", "A", ")", " ", "REFERENCES", " ", "H",
      " ", "(", "A", ")", ",", " ", "CHECK", " ", "(", "A", " ", ">", " ",
      "0", ")", ")", " ", "VALIDPROC", " ", "VP">>

StmtFieldproc ==
    <<"CREATE", " ", "TABLE", " ", "F", " ", "(", "A", " ", "INT", " ",
      "FIELDPROC", " ", "FP", ",", " ", "B", " ", "INT", " ", "GENERATED",
      " ", "ALWAYS", ")">>

StmtDrop ==
    <<"DROP", " ", "TABLE", " ", "T">>

StmtBlank ==
    <<" ">>

StmtIdentifiers ==
    <<"CREATE", " ", "TABLE", " ", "I", " ", "(", "c", " ", "INT", " ",
      "NOT", " ", "NULL", ",", " ", "Order", " ", "DATE", ",", " ", "1ST",
      " ", "TIMESTAMP", "(", "3", ")", ",", " ", "PRIMARY", " ", "KEY", " ",
      "(", "c", ",", " ", "Order", ",", " ", "1ST", ")", ")">>

StmtSfTransient ==
    <<"CREATE", " ", "OR", " ", "REPLACE", " ", "TRANSIENT", " ", "TABLE",
      " ", "DB", ".", "S", ".", "T", " ", "(", "ID", " ", "NUMBER", "(",
      "10", ",", " ", "0", ")", " ", "IDENTITY", "(", "1", ",", "1", ")",
      " ", "NOT", " ", "NULL", ",", " ", "V", " ", "VARIANT", " ", "DEFAULT",
      " ", "1", ",", " ", "PRIMARY", " ", "KEY", " ", "(", "ID", ")", ")",
      " ", "CLUSTER", " ", "BY", " ", "(", "ID", ")">>

StmtSfRegular ==
    <<"CREATE", " ", "TABLE", " ", "IF", " ", "NOT", " ", "EXISTS", " ", "S",
      ".", "T", " ", "(", "ID", " ", "INT", " ", "AUTOINCREMENT", ",", " ",
      "V", " ", "VARIANT", ",", " ", "TS", " ", "TIMESTAMP_NTZ", "(", "9",
      ")", ",", " ", "\"Order\"", " ", "VARCHAR", "(", "40", ")", " ",
      "COLLATE", " ", "EN", " ", "WITH", " ", "MASKING", " ", "POLICY", " ",
      "P", ",", " ", "CONSTRAINT", " ", "U1", " ", "UNIQUE", " ", "(", "ID",
      ")", ",", " ", "FOREIGN", " ", "KEY", " ", "(", "ID", ")", " ",
      "REFERENCES", " ", "S", ".", "U", " ", "(", "ID", ")", ")", " ",
      "CLUSTER", " ", "BY", " ", "(", "ID", ",", " ", "TS", ")", " ",
      "DATA_RETENTION_TIME_IN_DAYS", " ", "=", " ", "1", " ",
      "CHANGE_TRACKING", " ", "=", " ", "TRUE", " ", "COMMENT", " ", "=",
      " ", "'", "C", "'">>

StmtSfDynamic ==
    <<"CREATE", " ", "DYNAMIC", " ", "TABLE", " ", "D", " ", "(", "A", " ",
      "INT", ")">>

StmtSfTemporary ==
    <<"CREATE", " ", "TEMPORARY", " ", "TABLE", " ", "T", " ", "(", "A", " ",
      "GEOGRAPHY", ",", " ", "B", " ", "TIME", "(", "3", ")", " ", "NOT",
      " ", "NULL", ")">>

StmtSfTemporal ==
    <<"CREATE", " ", "TABLE", " ", "\"Order\"", " ", "(", "c", " ",
      "TIMESTAMP_TZ", "(", "3", ")", ",", " ", "Order", " ", "TIME", ",",
      " ", "1ST", " ", "DATETIME", "(", "6", ")", ",", " ", "D", " ",
      "TIMESTAMP_LTZ", "(", " ", "3", " ", ")", ",", " ", "E", " ",
      "TIMESTAMP", "(", "9", ")", ",", " ", "PRIMARY", " ", "KEY", " ", "(",
      "c", ",", " ", "Order", ",", " ", "1ST", ")", ")">>

StmtSfExternal ==
    <<"CREATE", " ", "EXTERNAL", " ", "TABLE", " ", "X", " ", "(", "A", " ",
      "INT", ")">>

StmtSfHybrid ==
    <<"CREATE", " ", "HYBRID", " ", "TABLE", " ", "Y", " ", "(", "A", " ",
      "INT", ")">>

Statements ==
    <<StmtScenario1, StmtVolatile, StmtDeclare, StmtHeavy, StmtMalformed,
      StmtMissingParen, StmtExtraParen, StmtBackslash, StmtSemicolonLiteral,
      StmtClean, StmtCommented, StmtHash, StmtEditproc, StmtValidproc,
      StmtFieldproc, StmtDrop, StmtBlank, StmtIdentifiers, StmtSfTransient,
      StmtSfRegular, StmtSfDynamic, StmtSfTemporary, StmtSfTemporal,
      StmtSfExternal, StmtSfHybrid>>

Terminators == {";", "@"}

\* sequences of at most n elements of S
SeqsUpTo(S, n) == UNION {[1..k -> S] : k \in 0..n}

\* the script made of the chosen statements: each is followed by the
\* terminator (the last one only if last_terminated) and statements are
\* separated by a newline
MakeScript(choice, term, last_terminated) ==
    [k \in DOMAIN choice |->
        Statements[choice[k]]
          \o (IF k < Len(choice) \/ last_terminated THEN <<term>> ELSE <<>>)]

ScriptText(sc) == JoinText(sc, "\n")

\* DB2Parser(), Assessor() and DB2IceConverter() after construction: the
\* state of the parser each of them owns
NewInstances ==
    [parser |-> NewParser,
     assessor |-> [parser |-> NewParser],
     converter |-> [parser |-> NewParser, assessor |-> [parser |-> NewParser]]]

(***************************************************************************)
(* The system: one public operation is called on the input                 *)
(***************************************************************************)
Init ==
    /\ \E choice \in SeqsUpTo(DOMAIN Statements, MaxStmts),
          term \in Terminators, last_terminated \in BOOLEAN :
          /\ script = MakeScript(choice, term, last_terminated)
          /\ ddl = ScriptText(MakeScript(choice, term, last_terminated))
    /\ include_ewi = TRUE
    /\ include_comments = TRUE
    /\ called = "none"
    /\ statements = <<>>
    /\ parser = NewParser
    /\ report = NewReport
    /\ result = NewResult(NewReport)
    /\ sf_result = NewSfResult
    /\ mapped_column = NoColumn
    /\ type_mapping = NoMapping
    /\ sf_table = NoSfTable
    /\ table_output = NoConverted
    /\ db2_table = NoTable
    /\ assessed = <<>>
    /\ instances = NewInstances
    /\ returned = <<>>

\* DB2Parser()._split_statements(ddl)
Split ==
    /\ called = "none"
    /\ called' = "split_statements"
    /\ statements' = split_statements(ddl)
    /\ UNCHANGED <<script, ddl, include_ewi, include_comments, parser, report,
                   result, sf_result>>
    /\ UNCHANGED unit_vars
    /\ UNCHANGED seq_vars

\* DB2Parser().parse(ddl)
Parse ==
    /\ called = "none"
    /\ called' = "parse"
    /\ parser' = parse(ddl)
    /\ UNCHANGED <<script, ddl, include_ewi, include_comments, statements, report,
                   result, sf_result>>
    /\ UNCHANGED unit_vars
    /\ UNCHANGED seq_vars

\* Assessor().assess(ddl)
Assess ==
    /\ called = "none"
    /\ called' = "assess"
    /\ report' = assess(ddl)
    /\ UNCHANGED <<script, ddl, include_ewi, include_comments, statements, parser,
                   result, sf_result>>
    /\ UNCHANGED unit_vars
    /\ UNCHANGED seq_vars

\* DB2IceConverter(include_comments=c, include_ewi=e).convert(ddl)
Convert ==
    /\ called = "none"
    /\ \E c \in BOOLEAN, e \in BOOLEAN :
          /\ include_comments' = c
          /\ include_ewi' = e
          /\ result' = convert(ddl, c, e)
    /\ called' = "convert"
    /\ UNCHANGED <<script, ddl, statements, parser, report, sf_result>>
    /\ UNCHANGED unit_vars
    /\ UNCHANGED seq_vars

\* SnowflakeToIcebergConverter(include_comments=c, include_ewi=e).convert(ddl)
SfConvert ==
    /\ called = "none"
    /\ \E c \in BOOLEAN, e \in BOOLEAN :
          /\ include_comments' = c
          /\ include_ewi' = e
          /\ sf_result' = sf_convert(ddl, c, e)
    /\ called' = "sf_convert"
    /\ UNCHANGED <<script, ddl, statements, parser, report, result>>
    /\ UNCHANGED unit_vars
    /\ UNCHANGED seq_vars

Next == Split \/ Parse \/ Assess \/ Convert \/ SfConvert

Spec == Init /\ [][Next]_vars

(***************************************************************************)
(* The operations on one column and on one table: DataTypeMapper.map_type  *)
(* on a column as the parser builds it, and _convert_table of the          *)
(* Snowflake converter on a table with any combination of kind flags       *)
(***************************************************************************)
MaxPrecision == 12

\* a column as _parse_column builds it: the first number in parentheses is
\* stored as length and as precision, the second as scale
UnitColumn(t, p, sc, b) ==
    [NoColumn EXCEPT !.name = "A", !.data_type = t, !.length = p, !.precision = p,
                     !.scale = sc, !.for_bit_data = b]

\* the sizes around the three size limits of the mapper
UnitLengths ==
    {NoneInt, 1}
      \cup {m + d : m \in {MAX_VARCHAR_SIZE, MAX_BINARY_SIZE, MAX_LOB_SIZE},
                    d \in {-1, 0, 1}}

\* temporal columns of every precision, decimal columns around the precision
\* limit, sized columns around the size limits, and columns of other types
UnitColumns ==
    {UnitColumn(t, p, NoneInt, b) :
        t \in {"TIMESTAMP", "TIME"}, p \in {NoneInt} \cup 0..MaxPrecision,
        b \in BOOLEAN}
    \cup
    {UnitColumn(t, p, sc, b) :
        t \in {"DECIMAL", "DEC", "NUMERIC"}, p \in {NoneInt, 0, 1, 5, 38, 39},
        sc \in {NoneInt, 0, 2, 37, 38}, b \in BOOLEAN}
    \cup
    {UnitColumn(t, p, NoneInt, b) :
        t \in {"VARCHAR", "CHARACTER VARYING", "BINARY", "VARBINARY", "CLOB", "BLOB",
               "DBCLOB"},
        p \in UnitLengths, b \in BOOLEAN}
    \cup
    {UnitColumn(t, p, NoneInt, b) :
        t \in {"INTEGER", "DATE", "CHAR", "XML", "ROWID", "DECFLOAT", "GRAPHIC",
               "LONG VARCHAR", "MONEY"},
        p \in {NoneInt, 10}, b \in BOOLEAN}

\* parsed Snowflake tables with the kind flags set in every combination
UnitTables ==
    {[t EXCEPT !.temporary = f[1], !.transient = f[2], !.dynamic = f[3],
               !.external = f[4], !.hybrid = f[5]] :
        t \in {sf_parse(StmtSfTemporal)[1], sf_parse(StmtSfTransient)[1]},
        f \in [1..5 -> BOOLEAN]}

\* the DB2 tables a table assessment is applied to
UnitDb2Tables ==
    UNION {{p.tables[k] : k \in DOMAIN p.tables} :
             p \in {parse(s) : s \in {StmtScenario1, StmtVolatile, StmtDeclare,
                                       StmtHeavy, StmtClean, StmtEditproc,
                                       StmtValidproc, StmtFieldproc,
                                       StmtIdentifiers}}}

UnitInit ==
    /\ script = <<>>
    /\ ddl = <<>>
    /\ include_ewi = TRUE
    /\ include_comments = TRUE
    /\ called = "none"
    /\ statements = <<>>
    /\ parser = NewParser
    /\ report = NewReport
    /\ result = NewResult(NewReport)
    /\ sf_result = NewSfResult
    /\ mapped_column \in UnitColumns
    /\ type_mapping = NoMapping
    /\ \/ sf_table \in UnitTables /\ db2_table = parse(StmtClean).tables[1]
       \/ sf_table = sf_parse(StmtSfTemporal)[1] /\ db2_table \in UnitDb2Tables
    /\ table_output = NoConverted
    /\ assessed = <<>>
    /\ instances = NewInstances
    /\ returned = <<>>

\* DataTypeMapper().map_type(c.data_type, c.length, c.precision, c.scale,
\*                           c.for_bit_data) for the column c = mapped_column
MapType ==
    /\ called = "none"
    /\ called' = "map_type"
    /\ type_mapping' = map_type(mapped_column.data_type, mapped_column.length,
                                mapped_column.precision, mapped_column.scale,
                                mapped_column.for_bit_data)
    /\ UNCHANGED <<script, ddl, include_ewi, include_comments, statements, parser,
                   report, result, sf_result, mapped_column, sf_table, table_output,
                   db2_table, assessed>>
    /\ UNCHANGED seq_vars

\* SnowflakeToIcebergConverter(include_comments=c, include_ewi=e)
\*     ._convert_table(sf_table)
SfConvertTable ==
    /\ called = "none"
    /\ \E c \in BOOLEAN, e \in BOOLEAN :
          /\ include_comments' = c
          /\ include_ewi' = e
          /\ table_output' = sf_convert_table(sf_table, c, e)
    /\ called' = "convert_table"
    /\ UNCHANGED <<script, ddl, statements, parser, report, result, sf_result,
                   mapped_column, type_mapping, sf_table, db2_table, assessed>>
    /\ UNCHANGED seq_vars

\* the table t with the column c added after its columns
WithColumn(t, c) == [t EXCEPT !.columns = Append(@, c)]

\* one iteration of the table loop of Assessor.assess: the assessment of the
\* table and its component scores
Assessed(table) ==
    [assessment |-> assess_table(table),
     scores |-> calculate_component_scores(assess_table(table))]

\* the table loop of Assessor.assess, on db2_table and on the same table
\* with mapped_column added: assessed = <<the first, the second>>
AssessTable ==
    /\ called = "none"
    /\ called' = "assess_table"
    /\ assessed' = <<Assessed(db2_table),
                     Assessed(WithColumn(db2_table, mapped_column))>>
    /\ UNCHANGED <<script, ddl, include_ewi, include_comments, statements, parser,
                   report, result, sf_result, mapped_column, type_mapping, sf_table,
                   table_output, db2_table>>
    /\ UNCHANGED seq_vars

UnitNext == MapType \/ SfConvertTable \/ AssessTable

UnitSpec == UnitInit /\ [][UnitNext]_vars

(***************************************************************************)
(* Calls in sequence on the same objects                                   *)
(***************************************************************************)

MaxCalls == 3

\* the inputs of the calls: a clean table, a column without a data type
\* (warning), a missing parenthesis (error), tables with issues, a statement
\* that is no table, and the empty text
SeqInputs ==
    {s \o <<";">> : s \in {StmtClean, StmtMalformed, StmtMissingParen,
                           StmtScenario1, StmtHeavy, StmtDrop}} \cup {<<>>}

SeqColumns ==
    {UnitColumn(t, p, NoneInt, FALSE) : t \in {"TIMESTAMP", "XML"}, p \in {NoneInt, 10}}

SeqInit ==
    /\ script = <<>>
    /\ ddl = <<>>
    /\ include_ewi = TRUE
    /\ include_comments = TRUE
    /\ called = "none"
    /\ statements = <<>>
    /\ parser = NewParser
    /\ report = NewReport
    /\ result = NewResult(NewReport)
    /\ sf_result = NewSfResult
    /\ mapped_column = NoColumn
    /\ type_mapping = NoMapping
    /\ sf_table = NoSfTable
    /\ table_output = NoConverted
    /\ db2_table = NoTable
    /\ assessed = <<>>
    /\ instances = NewInstances
    /\ returned = <<>>

Call(op, input, value) == [op |-> op, input |-> input, value |-> value]

\* the DB2Parser object: parse(d); the entry holds the tables returned and
\* the object's errors and warnings after the call
SeqParse ==
    /\ Len(returned) < MaxCalls
    /\ \E d \in SeqInputs :
          /\ ddl' = d
          /\ instances' = [instances EXCEPT !.parser = parse_on(@, d)]
          /\ returned' = Append(returned,
                                Call("parse", d, parse_on(instances.parser, d)))
    /\ called' = "parse"
    /\ UNCHANGED <<script, include_ewi, include_comments, statements, parser,
                   report, result, sf_result>>
    /\ UNCHANGED unit_vars

\* the Assessor object: assess(d) parses with the parser the object owns
SeqAssess ==
    /\ Len(returned) < MaxCalls
    /\ \E d \in SeqInputs :
          /\ ddl' = d
          /\ instances' = [instances EXCEPT !.assessor.parser = parse_on(@, d)]
          /\ returned' = Append(returned,
                Call("assess", d,
                     AssessTables(parse_on(instances.assessor.parser, d).tables)))
    /\ called' = "assess"
    /\ UNCHANGED <<script, include_ewi, include_comments, statements, parser,
                   report, result, sf_result>>
    /\ UNCHANGED unit_vars

\* the DB2IceConverter object: convert(d) assesses with the assessor the
\* object owns, then parses with its own parser
SeqConvert ==
    /\ Len(returned) < MaxCalls
    /\ \E d \in SeqInputs :
          /\ ddl' = d
          /\ instances' =
                [instances EXCEPT
                    !.converter.assessor.parser = parse_on(@, d),
                    !.converter.parser = parse_on(@, d)]
          /\ returned' = Append(returned,
                Call("convert", d,
                     ConvertTables(
                        AssessTables(
                            parse_on(instances.converter.assessor.parser, d).tables),
                        parse_on(instances.converter.parser, d).tables,
                        include_comments, include_ewi)))
    /\ called' = "convert"
    /\ UNCHANGED <<script, include_ewi, include_comments, statements, parser,
                   report, result, sf_result>>
    /\ UNCHANGED unit_vars

\* the DataTypeMapper object: map_type reads and writes no attribute
SeqMapType ==
    /\ Len(returned) < MaxCalls
    /\ \E c \in SeqColumns :
          returned' = Append(returned,
                Call("map_type", c,
                     map_type(c.data_type, c.length, c.precision, c.scale,
                              c.for_bit_data)))
    /\ called' = "map_type"
    /\ UNCHANGED <<script, ddl, include_ewi, include_comments, statements, parser,
                   report, result, sf_result, instances>>
    /\ UNCHANGED unit_vars

SeqNext == SeqParse \/ SeqAssess \/ SeqConvert \/ SeqMapType

SeqSpec == SeqInit /\ [][SeqNext]_vars


(***************************************************************************)
(* Properties                                                              *)
(***************************************************************************)
\* the tables the assessed, converted or parsed input holds
Tables == parse(ddl).tables

\* the penalty total the specification fixes for a parsed table
StatedPenalty(table) ==
    LET mapping(c) == map_type(c.data_type, c.length, c.precision, c.scale,
                               c.for_bit_data)
        type(c) == IF mapping(c).status = "unsupported" THEN 25
                   ELSE IF mapping(c).status = "lossy" THEN 10
                   ELSE IF mapping(c).status = "compatible" /\ mapping(c).ewi_code # None
                   THEN 2 ELSE 0
        column(c) == type(c) + (IF c.fieldproc # None THEN 50 ELSE 0)
                     + (IF c.generated # None THEN 15 ELSE 0)
        constraint(c) == IF c.type \in {"FOREIGN KEY", "CHECK"} THEN 5 ELSE 0
    IN  SumSeq([k \in DOMAIN table.columns |-> column(table.columns[k])])
        + SumSeq([k \in DOMAIN table.constraints |-> constraint(table.constraints[k])])
        + (IF table.editproc # None THEN 50 ELSE 0)
        + (IF table.validproc # None THEN 40 ELSE 0)
        + (IF table.partition.type = "HASH" THEN 20 ELSE 0)

\* C1: every table assessment of a report returned by assess has
\* readiness_score = max(0, 100 - P), P the sum of the stated penalties of the
\* table, and so a score between 0 and 100
C1_ReadinessScore ==
    called = "assess" =>
        /\ Len(report.table_assessments) = Len(Tables)
        /\ \A k \in DOMAIN report.table_assessments :
              LET score == report.table_assessments[k].readiness_score
              IN  /\ score = Max(0, 100 - StatedPenalty(Tables[k]))
                  /\ 0 <= score /\ score <= 100

\* a report with a table at the floor (penalties above 100) and a table
\* whose penalties leave a score strictly between 0 and 100
C1_Witness ==
    /\ called = "assess"
    /\ \E k \in DOMAIN report.table_assessments :
          /\ StatedPenalty(Tables[k]) > 100
          /\ report.table_assessments[k].readiness_score = 0
    /\ \E k \in DOMAIN report.table_assessments :
          /\ StatedPenalty(Tables[k]) \in 1..99
          /\ report.table_assessments[k].readiness_score
               = 100 - StatedPenalty(Tables[k])


\* the sum over the tables of a report of one component score
ComponentSum(comp) ==
    SumSeq([k \in DOMAIN report.table_assessments |->
              calculate_component_scores(report.table_assessments[k])[comp]])

\* C2: in a report over at least one table each of the four sub-scores is the
\* mean over the tables of the table's component score, the overall score is
\* 0.40 datatype + 0.20 constraint + 0.15 partition + 0.25 special, the
\* weights add up to 1, and the overall score lies between 0 and 100
C2_WeightedMean ==
    called = "assess" /\ report.tables_total >= 1 =>
        LET n == Len(report.table_assessments)
            mean(score, comp) == score.num * n = ComponentSum(comp) * score.den
        IN  /\ n = report.tables_total
            /\ mean(report.datatype_score, "datatype")
            /\ mean(report.constraint_score, "constraint")
            /\ mean(report.partition_score, "partition")
            /\ mean(report.special_features_score, "special")
            /\ report.overall_score.num * 100 * n
                 = report.overall_score.den
                   * (40 * ComponentSum("datatype") + 20 * ComponentSum("constraint")
                      + 15 * ComponentSum("partition") + 25 * ComponentSum("special"))
            /\ WEIGHTS.datatype + WEIGHTS.constraint + WEIGHTS.partition
                 + WEIGHTS.special = 100
            /\ 0 <= report.overall_score.num
            /\ report.overall_score.num <= 100 * report.overall_score.den

\* a report over two tables whose four component scores all differ between
\* the tables or lie below 100, so that every mean and weight matters
C2_Witness ==
    /\ called = "assess"
    /\ report.tables_total = 2
    /\ ComponentSum("datatype") \in 1..199
    /\ ComponentSum("constraint") \in 1..199
    /\ ComponentSum("partition") \in 1..199
    /\ ComponentSum("special") \in 1..199
    /\ report.overall_score.num < 100 * report.overall_score.den

\* the level the specification gives a score num/den
StatedLevel(num, den) ==
    IF num >= 80 * den THEN "GREEN" ELSE IF num >= 50 * den THEN "YELLOW" ELSE "RED"

\* C3: in every report returned by assess, the no-table report included,
\* overall_level is GREEN iff overall_score >= 80, YELLOW iff it is in
\* [50, 80) and RED iff it is below 50, and each table assessment's
\* readiness_level relates to its readiness_score in the same way
C3_LevelMatchesScore ==
    called = "assess" =>
        /\ report.overall_level
             = StatedLevel(report.overall_score.num, report.overall_score.den)
        /\ \A k \in DOMAIN report.table_assessments :
              report.table_assessments[k].readiness_level
                = StatedLevel(report.table_assessments[k].readiness_score, 1)

\* C4: a table is counted in tables_blocked iff it has a CRITICAL issue, in
\* tables_manual iff can_auto_convert is false and it has no CRITICAL issue,
\* in tables_auto otherwise; a column with an UNSUPPORTED mapping or a
\* fieldproc, and a table with editproc or validproc, gives a CRITICAL issue
\* and can_auto_convert = false; the three counts add up to tables_total
C4_Categories ==
    called = "assess" =>
        LET tas == report.table_assessments
            critical(ta) == \E i \in DOMAIN ta.issues : ta.issues[i].severity = "CRITICAL"
            blocked == {k \in DOMAIN tas : critical(tas[k])}
            manual == {k \in DOMAIN tas : ~tas[k].can_auto_convert /\ ~critical(tas[k])}
            auto == (DOMAIN tas \ blocked) \ manual
            unsupported(c) ==
                map_type(c.data_type, c.length, c.precision, c.scale,
                         c.for_bit_data).status = "unsupported"
            flagged(ta, column_name) ==
                /\ ~ta.can_auto_convert
                /\ \E i \in DOMAIN ta.issues :
                      /\ ta.issues[i].severity = "CRITICAL"
                      /\ ta.issues[i].column_name = column_name
        IN  /\ report.tables_blocked = Cardinality(blocked)
            /\ report.tables_manual = Cardinality(manual)
            /\ report.tables_auto = Cardinality(auto)
            /\ report.tables_auto + report.tables_manual + report.tables_blocked
                 = report.tables_total
            /\ Len(tas) = Len(Tables)
            /\ \A k \in DOMAIN tas :
                  /\ \A c \in DOMAIN Tables[k].columns :
                        LET col == Tables[k].columns[c]
                        IN  unsupported(col) \/ col.fieldproc # None
                              => flagged(tas[k], col.name)
                  /\ Tables[k].editproc # None \/ Tables[k].validproc # None
                       => flagged(tas[k], None)

\* a report with a blocked table (one that has an UNSUPPORTED column, a
\* fieldproc, an editproc or a validproc) next to an auto-convertible one
C4_Witness ==
    /\ called = "assess"
    /\ report.tables_blocked = 1 /\ report.tables_auto = 1
    /\ \E k \in DOMAIN Tables :
          \/ Tables[k].editproc # None
          \/ Tables[k].validproc # None
          \/ \E c \in DOMAIN Tables[k].columns : Tables[k].columns[c].fieldproc # None

\* C5: when the parser returns no table, assess returns a report with
\* tables_total = 0, every other count zero, no warnings, no info items, no
\* table assessments and exactly one CRITICAL issue SSC-EWI-DB2ICE-0000
C5_NoTablesReport ==
    called = "assess" /\ Tables = <<>> =>
        /\ report.tables_total = 0
        /\ report.tables_auto = 0 /\ report.tables_manual = 0
        /\ report.tables_blocked = 0
        /\ report.total_columns = 0 /\ report.total_constraints = 0
        /\ report.warnings = <<>> /\ report.info_items = <<>>
        /\ report.table_assessments = <<>>
        /\ Len(report.critical_issues) = 1
        /\ report.critical_issues[1].code = "SSC-EWI-DB2ICE-0000"
        /\ report.critical_issues[1].severity = "CRITICAL"
        /\ report.critical_issues[1].message
             = "No valid CREATE TABLE statements found in input"

\* assess was called on whitespace-only input and returned its report
C5_Witness ==
    /\ called = "assess"
    /\ ddl # <<>> /\ \A i \in DOMAIN ddl : IsWS(ddl[i])
    /\ Tables = <<>>
    /\ Len(report.critical_issues) = 1


\* C6: for both converters, when the parser returns no table the result has
\* success = false, a non-empty error_message, empty iceberg_ddl,
\* tables_converted = 0 and ewi_count = 0, and the DB2 result embeds the
\* assessment of the input (the report with the one CRITICAL no-tables
\* issue); when at least one table parses, success = true and error_message
\* is absent
C6_BatchResult ==
    /\ called = "convert" =>
          /\ result.assessment = assess(ddl)
          /\ IF Tables = <<>>
             THEN /\ ~result.success
                  /\ result.error_message \notin {None, ""}
                  /\ Join(result.iceberg_ddl) = ""
                  /\ result.tables_converted = 0 /\ result.ewi_count = 0
                  /\ result.assessment.tables_total = 0
                  /\ Len(result.assessment.critical_issues) = 1
                  /\ result.assessment.critical_issues[1].code = "SSC-EWI-DB2ICE-0000"
             ELSE result.success /\ result.error_message = None
    /\ called = "sf_convert" =>
          IF sf_parse(ddl) = <<>>
          THEN /\ ~sf_result.success
               /\ sf_result.error_message \notin {None, ""}
               /\ Join(sf_result.iceberg_ddl) = ""
               /\ sf_result.tables_converted = 0 /\ sf_result.ewi_count = 0
          ELSE sf_result.success /\ sf_result.error_message = None

\* the DB2 converter was called on input that holds statements but no table
\* that parses, and returned the failed result with the assessment in it
C6_Witness ==
    /\ called = "convert"
    /\ ddl # <<>> /\ Tables = <<>>
    /\ ~result.success
    /\ Len(result.assessment.critical_issues) = 1

\* number of "(" minus number of ")" among the first i tokens, counting the
\* tokens outside single-quoted literals as SQL delimits them
SqlDepth(s, i) ==
    LET outside(j) == Cardinality({q \in 1..(j - 1) : s[q] = "'"}) % 2 = 0
    IN  Cardinality({j \in 1..i : s[j] = "(" /\ outside(j)})
        - Cardinality({j \in 1..i : s[j] = ")" /\ outside(j)})

SqlBalanced(s) ==
    /\ SqlDepth(s, Len(s)) = 0
    /\ \A i \in 1..Len(s) : SqlDepth(s, i) >= 0

\* a CREATE TABLE statement of the script that ends with its terminator
Terminated(stmt, terms) ==
    /\ Len(stmt) > 1 /\ stmt[Len(stmt)] \in terms
    /\ IsCreateTable(stmt)

WellFormed(stmt) ==
    LET text == SubSeq(stmt, 1, Len(stmt) - 1)
    IN  /\ SqlBalanced(text)
        /\ Len(parse(text).tables) = 1 /\ parse(text).errors = <<>>

\* C7: when a CREATE TABLE statement whose column-list parentheses do not
\* balance (one is missing or one too many) is followed by well-formed
\* terminated CREATE TABLE statements, parse yields no table for the bad
\* statement, records an error for it, and returns the table of each
\* following statement
C7_FailureIsolated ==
    /\ called = "parse"
    /\ Len(script) = 2
    /\ Terminated(script[1], Terminators) /\ Terminated(script[2], Terminators)
    /\ ~SqlBalanced(SubSeq(script[1], 1, Len(script[1]) - 1))
    /\ WellFormed(script[2])
    => /\ parser.errors # <<>>
       /\ parser.tables = parse(SubSeq(script[2], 1, Len(script[2]) - 1)).tables

\* the non-empty top-level candidates of the column list of a statement
Candidates(stmt) ==
    LET match == SearchHeader(stmt, ~IsCreateTable(stmt))
        parts == split_column_defs(
                     SubSeq(stmt, match.paren + 1,
                            find_matching_paren(stmt, match.paren) - 1))
    IN  {k \in DOMAIN parts : Strip(parts[k]) # <<>>}

\* C8: in a statement whose header and column list parse, every non-empty
\* top-level candidate that becomes neither a column nor a constraint adds a
\* warning, and the table is returned with its other columns and constraints
C8_DroppedCandidateWarned ==
    /\ called = "parse"
    /\ Len(split_statements(ddl)) = 1
    /\ Len(parser.tables) = 1
    => LET stmt == strip_leading_comments(Strip(split_statements(ddl)[1]))
       IN  Cardinality(Candidates(stmt))
             = Len(parser.tables[1].columns) + Len(parser.tables[1].constraints)
               + Len(parser.warnings)

\* C9: a script of N semicolon-terminated CREATE TABLE statements, none with
\* a semicolon inside a string literal, splits into exactly N statements, in
\* source order, each without its terminator
C9_CountPreserved ==
    /\ called = "split_statements"
    /\ \A k \in DOMAIN script :
          /\ Terminated(script[k], {";"})
          /\ SqlBalanced(SubSeq(script[k], 1, Len(script[k]) - 1))
          /\ \A i \in 1..(Len(script[k]) - 1) : script[k][i] # ";"
    => /\ Len(statements) = Len(script)
       /\ \A k \in DOMAIN script :
             statements[k] = Strip(SubSeq(script[k], 1, Len(script[k]) - 1))


\* the k-th of the blocks that iceberg_ddl joins with blank lines
Block(text, k) ==
    LET seps == {i \in DOMAIN text : text[i] = "\n\n"}
        sep(n) == CHOOSE i \in seps : Cardinality({j \in seps : j < i}) = n - 1
        first == IF k = 1 THEN 1 ELSE sep(k - 1) + 1
        last == IF k = Cardinality(seps) + 1 THEN Len(text) ELSE sep(k) - 1
    IN  SubSeq(text, first, last)

\* the positions of the EWI markers with the given code in a block
Markers(block, code) ==
    {i \in 1..(Len(block) - 1) : block[i] = EWI_OPEN /\ block[i + 1] = code}

\* the block of a session-scoped table: a TEMPORARY statement without any
\* Iceberg clause, with the type-mapped column lines in declaration order and
\* the primary key, and with the given number of 0030 markers, all of them
\* after the statement
TemporaryBlock(table, block, markers) ==
    LET columns == table.columns
        line(c) == <<"    ", format_identifier(c.name), " ",
                     map_type(c.data_type, c.length, c.precision, c.scale,
                              c.for_bit_data).target_type>>
        at(c) == {i \in 1..(Len(block) - 3) : SubSeq(block, i, i + 3) = line(c)}
        pks == {k \in DOMAIN table.constraints :
                  table.constraints[k].type = "PRIMARY KEY"}
        pk == table.constraints[MinOf(pks)].columns
        close == {i \in DOMAIN block : block[i] = ");"}
    IN  /\ \E i \in DOMAIN block : block[i] = "CREATE OR REPLACE TEMPORARY TABLE "
        /\ \A i \in DOMAIN block :
              block[i] \notin {"CREATE OR REPLACE ICEBERG TABLE ",
                               "CATALOG = 'SNOWFLAKE'", "EXTERNAL_VOLUME = '",
                               "BASE_LOCATION = '"}
        /\ \A k \in DOMAIN columns : at(columns[k]) # {}
        /\ \A k \in 1..(Len(columns) - 1) :
              MinOf(at(columns[k])) < MinOf(at(columns[k + 1]))
        /\ pks # {} =>
              \E i \in 1..(Len(block) - 1) :
                 /\ block[i] = "    PRIMARY KEY ("
                 /\ block[i + 1]
                      = JoinWith([k \in DOMAIN pk |-> format_identifier(pk[k])], ", ")
        /\ Cardinality(Markers(block, "SSC-EWI-DB2ICE-0030")) = markers
        /\ Cardinality(close) = 1
        /\ \A i \in Markers(block, "SSC-EWI-DB2ICE-0030") : \A j \in close : j < i

\* C10: for every volatile or global temporary table the DB2 converter emits
\* a block with CREATE OR REPLACE TEMPORARY TABLE, without ICEBERG TABLE and
\* without the CATALOG / EXTERNAL_VOLUME / BASE_LOCATION clauses, that keeps
\* the type-mapped columns and the primary key; the block holds exactly one
\* SSC-EWI-DB2ICE-0030 marker, after the statement, when include_ewi is set,
\* and none when it is not
C10_TemporaryKept ==
    called = "convert" =>
        \A k \in DOMAIN Tables :
            Tables[k].volatile \/ Tables[k].global_temporary =>
                TemporaryBlock(Tables[k], Block(result.iceberg_ddl, k),
                               IF include_ewi THEN 1 ELSE 0)

\* a volatile table with a primary key converted with include_ewi set: its
\* block carries the 0030 marker
C10_Witness ==
    /\ called = "convert" /\ include_ewi
    /\ \E k \in DOMAIN Tables :
          /\ Tables[k].volatile
          /\ \E c \in DOMAIN Tables[k].constraints :
                Tables[k].constraints[c].type = "PRIMARY KEY"
          /\ Markers(Block(result.iceberg_ddl, k), "SSC-EWI-DB2ICE-0030") # {}

\* C10 as stated: the block holds exactly one SSC-EWI-DB2ICE-0030 marker
\* whatever the configuration
C10_AsStated ==
    called = "convert" =>
        \A k \in DOMAIN Tables :
            Tables[k].volatile \/ Tables[k].global_temporary =>
                TemporaryBlock(Tables[k], Block(result.iceberg_ddl, k), 1)


\* the positions in a generated text where an EWI marker
\* '!!!RESOLVE EWI!!! /*** <code> - <message> ***/!!!' starts
EwiMarkers(text) ==
    {i \in 1..(Len(text) - 4) :
        /\ text[i] = EWI_OPEN
        /\ text[i + 2] = " - "
        /\ text[i + 4] = EWI_CLOSE}

\* C11: in every result of DB2IceConverter.convert, whatever include_ewi and
\* include_comments are, ewi_count is the number of EWI markers present in
\* iceberg_ddl
C11_EwiCountIsMarkers ==
    called = "convert" =>
        result.ewi_count = Cardinality(EwiMarkers(result.iceberg_ddl))

\* a conversion of two tables that emitted at least three markers, one of them
\* the marker of a session-scoped table
C11_Witness ==
    /\ called = "convert" /\ include_ewi
    /\ result.tables_converted = 2
    /\ result.ewi_count >= 3
    /\ Cardinality(EwiMarkers(result.iceberg_ddl)) >= 3
    /\ \E k \in DOMAIN Tables :
          Markers(Block(result.iceberg_ddl, k), "SSC-EWI-DB2ICE-0030") # {}


\* the positions of the EWI markers that follow the line of a column in the
\* block of its table, before the next line of the statement
ColumnMarkers(block, col) ==
    LET line == <<"    ", format_identifier(col.name), " ",
                  map_type(col.data_type, col.length, col.precision, col.scale,
                           col.for_bit_data).target_type>>
        at == {i \in 1..(Len(block) - 3) : SubSeq(block, i, i + 3) = line}
        stops == {"    ", "    PRIMARY KEY (", ")", ");"}
    IN  {i \in EwiMarkers(block) :
            /\ at # {}
            /\ i > MinOf(at)
            /\ \A j \in (MinOf(at) + 1)..i : block[j] \notin stops}

\* the issues the embedded assessment records for a column of its k-th table
ColumnIssues(k, col) ==
    {i \in DOMAIN result.assessment.table_assessments[k].issues :
        result.assessment.table_assessments[k].issues[i].column_name = col.name}

\* C12: with EWI markers enabled every column is followed by one marker per
\* issue the assessor records for it (type mapping with an issue code whatever
\* its status, fieldproc, generated clause) and a column without an issue by
\* none, so the columns with a marker are the columns with a column-level issue
C12_MarkerPerColumnIssue ==
    called = "convert" /\ include_ewi =>
        \A k \in DOMAIN Tables : \A c \in DOMAIN Tables[k].columns :
            Cardinality(ColumnMarkers(Block(result.iceberg_ddl, k), Tables[k].columns[c]))
              = Cardinality(ColumnIssues(k, Tables[k].columns[c]))


\* the n-th smallest element of a set of positions
Nth(positions, n) ==
    CHOOSE i \in positions : Cardinality({j \in positions : j < i}) = n - 1

\* the block of a converted table: not empty, with one CREATE OR REPLACE
\* statement for the table and one column line per parsed column, in
\* declaration order
TableBlock(table, block) ==
    LET heads == {i \in DOMAIN block :
                    block[i] \in {"CREATE OR REPLACE ICEBERG TABLE ",
                                  "CREATE OR REPLACE TEMPORARY TABLE "}}
        starts == {i \in DOMAIN block : block[i] = "    "}
        line(c) == <<"    ", format_identifier(c.name), " ",
                     map_type(c.data_type, c.length, c.precision, c.scale,
                              c.for_bit_data).target_type>>
    IN  /\ block # <<>>
        /\ Cardinality(heads) = 1
        /\ \A i \in heads :
              /\ i < Len(block)
              /\ block[i + 1] = format_identifier(full_name(table))
              /\ \A j \in starts : i < j
        /\ Cardinality(starts) = Len(table.columns)
        /\ \A c \in DOMAIN table.columns :
              /\ Nth(starts, c) + 3 <= Len(block)
              /\ SubSeq(block, Nth(starts, c), Nth(starts, c) + 3)
                   = line(table.columns[c])

\* C13: when at least one table parses, iceberg_ddl is the outputs of the
\* parsed tables in parse order joined by a blank line, every table, regular
\* or session-scoped, contributing one non-empty block with a CREATE OR REPLACE
\* statement and one column line per parsed column in declaration order;
\* tables_converted is the number of parsed tables and the tables_total of the
\* embedded assessment
C13_OneBlockPerTable ==
    called = "convert" /\ Tables # <<>> =>
        /\ Cardinality({i \in DOMAIN result.iceberg_ddl : result.iceberg_ddl[i] = "\n\n"})
             = Len(Tables) - 1
        /\ \A k \in DOMAIN Tables : TableBlock(Tables[k], Block(result.iceberg_ddl, k))
        /\ result.tables_converted = Len(Tables)
        /\ result.assessment.tables_total = Len(Tables)

\* a conversion of a regular table followed by a session-scoped one, both with
\* at least two columns
C13_Witness ==
    /\ called = "convert"
    /\ Len(Tables) = 2
    /\ ~(Tables[1].volatile \/ Tables[1].global_temporary)
    /\ Tables[2].volatile \/ Tables[2].global_temporary
    /\ Len(Tables[1].columns) >= 2 /\ Len(Tables[2].columns) >= 2
    /\ result.tables_converted = 2
    /\ Len(Block(result.iceberg_ddl, 2)) > 0


\* the tables the Snowflake converter reads from the input
SfTables == sf_parse(ddl)

\* a Snowflake table for which a statement is emitted
SfEmitted(table) ==
    table.temporary \/ table.transient
      \/ ~(table.dynamic \/ table.external \/ table.hybrid)

\* the identifier rule as stated: plain and not reserved gives the upper-case
\* form without quotes, anything else the original in double quotes
StatedIdentifier(w) ==
    IF IsIdentifier(w) /\ Upper(w) \notin reserved THEN Upper(w)
    ELSE "\"" \o w \o "\""

\* a block names its columns and its primary-key columns as stated
StatedNames(block, names, pk) ==
    LET starts == {i \in DOMAIN block : block[i] = "    "}
        pks == {i \in DOMAIN block : block[i] = "    PRIMARY KEY ("}
    IN  /\ Cardinality(starts) = Len(names)
        /\ \A c \in DOMAIN names :
              /\ Nth(starts, c) < Len(block)
              /\ block[Nth(starts, c) + 1] = StatedIdentifier(names[c])
        /\ pk # <<>> =>
              /\ pks # {}
              /\ \A i \in pks :
                    /\ i < Len(block)
                    /\ block[i + 1]
                         = JoinWith([k \in DOMAIN pk |-> StatedIdentifier(pk[k])], ", ")

\* the primary-key columns the DB2 converter emits for a table
PkColumns(table) ==
    IF has_pk_constraint(table.constraints)
    THEN get_pk_constraint(table.constraints).columns ELSE <<>>

\* the names in a sequence of names
Names(names) == {names[c] : c \in DOMAIN names}

\* the converters format every name of the sequence alike
SameFormat(names) ==
    \A w \in Names(names) : format_identifier(w) = sf_format_identifier(w)

\* the k-th block of a text names the columns and the primary key as stated,
\* and both converters format these names alike
StatedTable(text, k, columns, pk) ==
    /\ StatedNames(Block(text, k), [c \in DOMAIN columns |-> columns[c].name], pk)
    /\ SameFormat([c \in DOMAIN columns |-> columns[c].name])
    /\ SameFormat(pk)

HeaderNames(block) ==
    {block[i + 1] : i \in {j \in 1..(Len(block) - 1) :
                             block[j] \in {"CREATE OR REPLACE ICEBERG TABLE ", " TABLE "}}}

\* C15: the Snowflake converter emits the table name of the CREATE header by
\* the identifier rule, part by part: a reserved part or one that does not
\* match ^[A-Za-z_][A-Za-z0-9_]*$ in double quotes with its casing, a plain
\* part in upper case without quotes
C15_HeaderNameQuoted ==
    called = "sf_convert" =>
        \A tables \in {SfTables} : \A k \in DOMAIN tables :
            SfEmitted(tables[k]) =>
                HeaderNames(Block(sf_result.iceberg_ddl, k))
                  = {JoinWith([p \in DOMAIN SfNameParts(tables[k]) |->
                                 StatedIdentifier(SfNameParts(tables[k])[p])], ".")}


\* a Snowflake table the converter skips, and the code of its issue
SfSkipped(table) == ~SfEmitted(table)

SkipCode(table) ==
    IF table.dynamic THEN "SSC-EWI-SF2ICE-0022"
    ELSE IF table.external THEN "SSC-EWI-SF2ICE-0023"
    ELSE "SSC-EWI-SF2ICE-0024"

\* every line of a block is a comment
CommentsOnly(block) ==
    \A i \in DOMAIN block :
        i = 1 \/ block[i - 1] = "\n" =>
            block[i] \in {"-- !!!! ", "-- Table: ", "-- Reason: ",
                          "-- Action required: Review and handle this table manually"}

\* C17: a dynamic, external or hybrid table that is neither temporary nor
\* transient yields comments only and no CREATE statement, one critical issue
\* with code 0022, 0023 or 0024, and 1 in ewi_count; the batch result has
\* success true and no error_message, also when every table is skipped
C17_SkippedTable ==
    called = "sf_convert" =>
        \A tables \in {SfTables} :
            LET skipped == {k \in DOMAIN tables : SfSkipped(tables[k])}
                issues(k) == {i \in DOMAIN sf_result.issues :
                                sf_result.issues[i].table_name = sf_full_name(tables[k])}
                same(k) == {j \in skipped :
                              sf_full_name(tables[j]) = sf_full_name(tables[k])}
            IN  /\ \A k \in skipped :
                      /\ CommentsOnly(Block(sf_result.iceberg_ddl, k))
                      /\ Cardinality(issues(k)) = Cardinality(same(k))
                      /\ \A i \in issues(k) :
                            /\ sf_result.issues[i].severity = "critical"
                            /\ sf_result.issues[i].code = SkipCode(tables[k])
                /\ sf_result.ewi_count
                     = Cardinality(skipped) + Cardinality(EwiMarkers(sf_result.iceberg_ddl))
                /\ skipped # {} =>
                      /\ sf_result.success
                      /\ sf_result.error_message = None

\* a batch of a dynamic and a hybrid table, both skipped, converted with
\* comments: success, two issues and an ewi_count of 2
C17_Witness ==
    /\ called = "sf_convert" /\ include_comments
    /\ \E tables \in {SfTables} :
          /\ Len(tables) = 2
          /\ tables[1].dynamic /\ tables[2].hybrid
          /\ SfSkipped(tables[1]) /\ SfSkipped(tables[2])
    /\ sf_result.success
    /\ sf_result.ewi_count = 2
    /\ Len(sf_result.issues) = 2
    /\ sf_result.iceberg_ddl # <<>>


\* a Snowflake table converted on the regular path
SfRegular(table) ==
    ~(table.temporary \/ table.transient \/ table.dynamic \/ table.external
        \/ table.hybrid)

\* the precision a column type declares, NoneInt when it declares none
DeclaredPrecision(data_type) ==
    LET t == SelectSeq(data_type, LAMBDA x : ~IsWS(x))
    IN  IF Len(t) >= 4 /\ t[2] = "(" /\ IsNumber(t[3]) /\ t[4] = ")"
        THEN NumVal[t[3]] ELSE NoneInt

\* the precision-6 type the specification gives for a temporal type
StatedTemporalTarget(base_type) ==
    CASE base_type = "TIME" -> "TIME(6)"
      [] base_type \in {"TIMESTAMP", "TIMESTAMP_NTZ", "DATETIME"} -> "TIMESTAMP_NTZ(6)"
      [] base_type \in {"TIMESTAMP_LTZ", "TIMESTAMP_TZ"} -> "TIMESTAMP_LTZ(6)"

TemporalTypes ==
    {"TIME", "TIMESTAMP", "TIMESTAMP_NTZ", "TIMESTAMP_LTZ", "TIMESTAMP_TZ", "DATETIME"}

\* the markers that follow the n-th column line of a block
LineMarkers(block, n) ==
    LET starts == {i \in DOMAIN block : block[i] = "    "}
        stops == {"    ", "    PRIMARY KEY (", ")", ");"}
    IN  {i \in EwiMarkers(block) :
            /\ i > Nth(starts, n)
            /\ \A j \in (Nth(starts, n) + 1)..i : block[j] \notin stops}

\* the type emitted on the n-th column line of a block
LineType(block, n) == block[Nth({i \in DOMAIN block : block[i] = "    "}, n) + 3]

\* the issues recorded for a column of a table
SfColumnIssues(table, col) ==
    {i \in DOMAIN sf_result.issues :
        /\ sf_result.issues[i].table_name = sf_full_name(table)
        /\ sf_result.issues[i].column_name = col.name}

\* C18: on the regular Snowflake path a TIME, TIMESTAMP, TIMESTAMP_NTZ,
\* TIMESTAMP_LTZ, TIMESTAMP_TZ or DATETIME column is emitted with the
\* precision-6 type, and an issue with its inline marker is recorded for it
\* exactly when the source declares a precision other than 6
C18_TemporalPrecision ==
    called = "sf_convert" /\ include_ewi =>
        \A tables \in {SfTables} : \A k \in DOMAIN tables :
            SfRegular(tables[k]) =>
                \A c \in DOMAIN tables[k].columns :
                    \A col \in {tables[k].columns[c]} :
                        col.data_type[1] \in TemporalTypes =>
                            /\ LineType(Block(sf_result.iceberg_ddl, k), c)
                                 = StatedTemporalTarget(col.data_type[1])
                            /\ SfColumnIssues(tables[k], col) # {}
                                 <=> DeclaredPrecision(col.data_type) \notin {NoneInt, 6}
                            /\ LineMarkers(Block(sf_result.iceberg_ddl, k), c) # {}
                                 <=> DeclaredPrecision(col.data_type) \notin {NoneInt, 6}


\* C19: on the regular Snowflake path a TIMESTAMP_TZ column is emitted as
\* TIMESTAMP_LTZ(6) and its issue SSC-EWI-SF2ICE-0009 has severity warning,
\* while the issues of the other temporal types have severity info
C19_TimestampTzWarning ==
    called = "sf_convert" /\ include_ewi =>
        \A tables \in {SfTables} : \A k \in DOMAIN tables :
            SfRegular(tables[k]) =>
                \A c \in DOMAIN tables[k].columns :
                    \A col \in {tables[k].columns[c]} :
                        col.data_type[1] \in TemporalTypes =>
                            /\ col.data_type[1] = "TIMESTAMP_TZ" =>
                                  LineType(Block(sf_result.iceberg_ddl, k), c)
                                    = "TIMESTAMP_LTZ(6)"
                            /\ \A i \in SfColumnIssues(tables[k], col) :
                                  sf_result.issues[i].code
                                    \in {TIMESTAMP_TYPES[t][2] : t \in TemporalTypes} =>
                                      /\ sf_result.issues[i].code = "SSC-EWI-SF2ICE-0009"
                                           <=> col.data_type[1] = "TIMESTAMP_TZ"
                                      /\ sf_result.issues[i].severity
                                           = IF col.data_type[1] = "TIMESTAMP_TZ"
                                             THEN "warning" ELSE "info"


\* C16: a Snowflake table with the temporary or transient flag is emitted as
\* CREATE OR REPLACE TEMPORARY TABLE or CREATE OR REPLACE TRANSIENT TABLE,
\* never as an Iceberg table and without the trailer clauses, with no EWI
\* marker in the text, 0 EWIs counted and exactly one issue, of severity
\* info, whatever the dynamic, external and hybrid flags are
C16_KeptAsStandard ==
    called = "convert_table" /\ (sf_table.temporary \/ sf_table.transient) =>
        /\ \E i \in 1..(Len(table_output.stmt) - 2) :
              /\ table_output.stmt[i] = "CREATE OR REPLACE "
              /\ \/ table_output.stmt[i + 1] = "TEMPORARY" /\ sf_table.temporary
                 \/ table_output.stmt[i + 1] = "TRANSIENT" /\ sf_table.transient
              /\ table_output.stmt[i + 2] = " TABLE "
        /\ \A i \in DOMAIN table_output.stmt :
              table_output.stmt[i] \notin {"CREATE OR REPLACE ICEBERG TABLE ",
                                           "CATALOG = 'SNOWFLAKE'",
                                           "EXTERNAL_VOLUME = '", "BASE_LOCATION = '",
                                           EWI_OPEN}
        /\ EwiMarkers(table_output.stmt) = {}
        /\ table_output.ewis = 0
        /\ Len(table_output.issues) = 1
        /\ table_output.issues[1].severity = "info"

\* a transient table that is also flagged dynamic and hybrid, converted with
\* EWI markers enabled and kept as a TRANSIENT table
C16_Witness ==
    /\ called = "convert_table" /\ include_ewi
    /\ sf_table.transient /\ ~sf_table.temporary
    /\ sf_table.dynamic /\ sf_table.hybrid
    /\ Len(sf_table.columns) >= 2
    /\ \E i \in DOMAIN table_output.stmt : table_output.stmt[i] = "TRANSIENT"
    /\ Len(table_output.issues) = 1

\* C20: DataTypeMapper.map_type for TIMESTAMP without FOR BIT DATA gives the
\* target TIMESTAMP_NTZ(6); a declared precision from 0 to 12 other than 6
\* gives status COMPATIBLE with code SSC-EWI-DB2ICE-0004, the precision 6 or
\* none gives DIRECT with no code
C20_TimestampMapping ==
    /\ called = "map_type"
    /\ mapped_column.data_type = "TIMESTAMP"
    /\ ~mapped_column.for_bit_data
    => /\ type_mapping.target_type = "TIMESTAMP_NTZ(6)"
       /\ mapped_column.precision \in (0..12) \ {6} =>
             /\ type_mapping.status = "compatible"
             /\ type_mapping.ewi_code = "SSC-EWI-DB2ICE-0004"
       /\ mapped_column.precision \in {NoneInt, 6} =>
             /\ type_mapping.status = "direct"
             /\ type_mapping.ewi_code = None


\* NUMBER(p,s) as the mapper writes it
NumberType(p, s) == "NUMBER(" \o ToString(p) \o "," \o ToString(s) \o ")"

\* the value an optional size stands for when it is not given
OrDefault(n, default) == IF n = NoneInt THEN default ELSE n

\* the mapping the specification fixes for DECIMAL(p, s)
StatedDecimal(p, s, m) ==
    IF p > 38
    THEN /\ m.target_type = NumberType(38, IF s < 37 THEN s ELSE 37)
         /\ m.status = "lossy"
         /\ m.ewi_code = "SSC-EWI-DB2ICE-0002"
    ELSE /\ m.target_type = NumberType(p, s)
         /\ m.status = "direct"
         /\ m.ewi_code = None

StatedLimit(t) ==
    IF t \in {"VARCHAR", "CHAR VARYING", "CHARACTER VARYING"} THEN 16 * 1024 * 1024
    ELSE IF t \in {"BINARY", "VARBINARY", "BINARY VARYING"} THEN 8 * 1024 * 1024
    ELSE 128 * 1024 * 1024

StatedTargetName(t) ==
    IF t \in {"VARCHAR", "CHAR VARYING", "CHARACTER VARYING", "CLOB", "DBCLOB"}
    THEN "VARCHAR"
    ELSE IF t \in {"VARBINARY", "BINARY VARYING"} THEN "VARBINARY"
    ELSE "BINARY"

MappedStatus(c) ==
    map_type(c.data_type, c.length, c.precision, c.scale, c.for_bit_data).status

\* C24: a table to which one column of UNSUPPORTED status is added has a
\* strictly lower readiness_score than the table without it, unless both
\* scores are at the floor 0.
C24_MonotonicPenalty ==
    /\ called = "assess_table"
    /\ MappedStatus(mapped_column) = "unsupported"
    => \/ assessed[2].assessment.readiness_score
             < assessed[1].assessment.readiness_score
       \/ /\ assessed[1].assessment.readiness_score = 0
          /\ assessed[2].assessment.readiness_score = 0

\* a table of score 100 that drops to 75 with an XML column
C24_Witness ==
    /\ called = "assess_table"
    /\ MappedStatus(mapped_column) = "unsupported"
    /\ assessed[1].assessment.readiness_score = 100
    /\ assessed[2].assessment.readiness_score = 75
    /\ Len(assessed[2].assessment.issues) = Len(assessed[1].assessment.issues) + 1


\* what a newly constructed object returns for the call's input alone
Fresh(call) ==
    CASE call.op = "parse" -> parse(call.input)
      [] call.op = "assess" -> assess(call.input)
      [] call.op = "convert" -> convert(call.input, TRUE, TRUE)
      [] OTHER -> map_type(call.input.data_type, call.input.length,
                           call.input.precision, call.input.scale,
                           call.input.for_bit_data)

\* the last call of the operation op, 0 when there is none
LastCall(op) ==
    IF \E k \in DOMAIN returned : returned[k].op = op
    THEN CHOOSE k \in DOMAIN returned :
            /\ returned[k].op = op
            /\ \A j \in DOMAIN returned : returned[j].op = op => j <= k
    ELSE 0

\* the parser an object owns holds what a new parser holds after the input
\* of the object's last call
AsAfterLast(owned, op) ==
    owned = IF LastCall(op) = 0 THEN NewParser
            ELSE parse(returned[LastCall(op)].input)

\* C25: no state carries over between calls on the same DB2Parser, Assessor
\* or DB2IceConverter object: every call returns what a new object returns
\* for its input alone, and leaves the parser's errors and warnings as a new
\* parser would have them; map_type called again with the same arguments
\* returns an equal TypeMapping; what a call has returned is not changed by
\* the calls after it.
C25_NoStateCarriesOver ==
    /\ [](/\ \A k \in DOMAIN returned : returned[k].value = Fresh(returned[k])
          /\ \A j \in DOMAIN returned : \A k \in DOMAIN returned :
                /\ returned[j].op = returned[k].op
                /\ returned[j].input = returned[k].input
                => returned[j].value = returned[k].value
          /\ AsAfterLast(instances.parser, "parse")
          /\ AsAfterLast(instances.assessor.parser, "assess")
          /\ AsAfterLast(instances.converter.parser, "convert")
          /\ AsAfterLast(instances.converter.assessor.parser, "convert"))
    /\ [][\A k \in DOMAIN returned : returned'[k] = returned[k]]_vars

\* a parse that failed with an error, then a parse with a warning, then a
\* clean parse on the same parser: the third has no message left
C25_Witness ==
    /\ Len(returned) = 3
    /\ \A k \in 1..3 : returned[k].op = "parse"
    /\ returned[1].value.errors # <<>>
    /\ returned[2].value.warnings # <<>>
    /\ returned[3].value.tables # <<>>
    /\ returned[3].value.errors = <<>>
    /\ returned[3].value.warnings = <<>>
    /\ instances.parser = returned[3].value


\* the issues of the report's table assessments, table after table
AssessmentIssues ==
    Flatten([k \in DOMAIN report.table_assessments |->
                report.table_assessments[k].issues])

\* the bucket holds the issues of severity sev of all, each once, in the
\* order they have in all
IsBucket(bucket, all, sev) ==
    LET positions == {i \in DOMAIN all : all[i].severity = sev}
    IN  /\ Len(bucket) = Cardinality(positions)
        /\ \A n \in DOMAIN bucket : bucket[n] = all[Nth(positions, n)]

\* the step of the table's traversal that produces the issue: its column's
\* position, then the constraints, editproc, validproc and the partition
Stage(table, issue) ==
    CASE issue.code \in {"SSC-EWI-DB2ICE-0015", "SSC-EWI-DB2ICE-0016"} ->
            Len(table.columns) + 1
      [] issue.code = "SSC-EWI-DB2ICE-0012" -> Len(table.columns) + 2
      [] issue.code = "SSC-EWI-DB2ICE-0013" -> Len(table.columns) + 3
      [] issue.code = "SSC-EWI-DB2ICE-0017" -> Len(table.columns) + 4
      [] OTHER ->
            IF \E k \in DOMAIN table.columns : table.columns[k].name = issue.column_name
            THEN CHOOSE k \in DOMAIN table.columns :
                    /\ table.columns[k].name = issue.column_name
                    /\ \A j \in DOMAIN table.columns :
                          table.columns[j].name = issue.column_name => k <= j
            ELSE 0

\* C26: in a report over at least one table every issue of every table
\* assessment is in the bucket of its severity exactly once and the buckets
\* hold nothing else; a bucket keeps the order of the tables and, within a
\* table, the order in which the issues were produced (columns as declared,
\* then constraints, editproc, validproc, partition).
C26_SeverityBuckets ==
    called = "assess" /\ report.tables_total >= 1
    => \A tables \in {Tables} : \A all \in {AssessmentIssues} :
          /\ IsBucket(report.critical_issues, all, "CRITICAL")
          /\ IsBucket(report.warnings, all, "WARNING")
          /\ IsBucket(report.info_items, all, "INFO")
          /\ Len(report.critical_issues) + Len(report.warnings)
                + Len(report.info_items) = Len(all)
          /\ Len(report.table_assessments) = Len(tables)
          /\ \A k \in DOMAIN tables :
                \A issues \in {report.table_assessments[k].issues} :
                   \A i \in DOMAIN issues : \A j \in DOMAIN issues :
                      /\ Stage(tables[k], issues[i]) > 0
                      /\ i < j => Stage(tables[k], issues[i])
                                     <= Stage(tables[k], issues[j])

\* two tables with issues, a warning produced before a critical issue, and the
\* critical bucket filled from both tables
C26_Witness ==
    /\ called = "assess"
    /\ Len(report.table_assessments) = 2
    /\ report.warnings # <<>>
    /\ report.info_items # <<>>
    /\ \E i \in DOMAIN AssessmentIssues : \E j \in DOMAIN AssessmentIssues :
          /\ i < j
          /\ AssessmentIssues[i].severity = "WARNING"
          /\ AssessmentIssues[j].severity = "CRITICAL"
    /\ \E m \in DOMAIN report.critical_issues : \E n \in DOMAIN report.critical_issues :
          /\ m < n
          /\ report.critical_issues[m].table_name # report.critical_issues[n].table_name


\* the token at position i is outside every single-quoted literal
OutsideLiteral(s, i) == Cardinality({q \in 1..(i - 1) : s[q] = "'"}) % 2 = 0

\* the terminators that end a statement: outside every literal and at
\* parenthesis depth 0
StatedCuts(s) ==
    {i \in DOMAIN s : /\ s[i] \in Terminators
                      /\ OutsideLiteral(s, i)
                      /\ SqlDepth(s, i) = 0}

\* the text between the (n-1)-th and the n-th of the cuts, the last one
\* running to the end of the text
Segment(s, cuts, n) ==
    LET first == IF n = 1 THEN 1 ELSE Nth(cuts, n - 1) + 1
        last == IF n = Cardinality(cuts) + 1 THEN Len(s) ELSE Nth(cuts, n) - 1
    IN  Strip(SubSeq(s, first, last))

\* C27: the splitter ends a statement at a ';' or '@' exactly when it is
\* outside every single-quoted literal and at parenthesis depth 0 (depth
\* counted outside literals only); other terminators stay in the statement
\* text, empty statements are dropped, and a non-empty last statement
\* without terminator is emitted.
C27_SplitAtTopLevel ==
    called = "split_statements"
    => \A cuts \in {StatedCuts(ddl)} :
          statements
            = SelectSeq([n \in 1..(Cardinality(cuts) + 1) |-> Segment(ddl, cuts, n)],
                        LAMBDA stmt : stmt # <<>>)


\* the issue codes the score computation files under each component
ComponentCodes ==
    [datatype |-> DatatypeCodes, constraint |-> ConstraintCodes,
     partition |-> PartitionCodes, special |-> SpecialCodes]

\* C28: every issue of a table assessment belongs to exactly one of the four
\* components (datatype, constraint, partition, special) and lowers that
\* component's score, which stays at 0 or above; no code the assessor emits
\* is without a component, so a table with an issue has a component score
\* below 100.
C28_IssueLowersComponent ==
    called = "assess_table"
    => \A n \in DOMAIN assessed :
          \A issues \in {assessed[n].assessment.issues} :
             /\ \A i \in DOMAIN issues :
                   Cardinality({c \in DOMAIN ComponentCodes :
                                   issues[i].code \in ComponentCodes[c]}) = 1
             /\ \A c \in DOMAIN ComponentCodes :
                   /\ assessed[n].scores[c] >= 0
                   /\ (\E i \in DOMAIN issues : issues[i].code \in ComponentCodes[c])
                         => assessed[n].scores[c] < 100
             /\ issues # <<>>
                   => \E c \in DOMAIN ComponentCodes : assessed[n].scores[c] < 100


\* the texts that follow the CREATE ... TABLE keywords in a block of the DB2
\* converter
Db2HeaderNames(block) ==
    {block[i + 1] : i \in {j \in 1..(Len(block) - 1) :
                             block[j] \in {"CREATE OR REPLACE ICEBERG TABLE ",
                                           "CREATE OR REPLACE TEMPORARY TABLE "}}}

\* a name part that needs no quotes
PlainPart(w) == IsIdentifier(w) /\ Upper(w) \notin reserved

\* C29: the DB2 converter decides the quoting of the table name in the CREATE
\* header part by part: a table with schema S and name T, both matching
\* ^[A-Za-z_][A-Za-z0-9_]*$ and not reserved, is named upper(S).upper(T)
\* without double quotes, in the Iceberg and in the TEMPORARY statement alike.
C29_HeaderPerPart ==
    called = "convert"
    => \A tables \in {Tables} : \A k \in DOMAIN tables :
          /\ tables[k].schema # None
          /\ PlainPart(tables[k].schema)
          /\ PlainPart(tables[k].name)
          => Db2HeaderNames(Block(result.iceberg_ddl, k))
               = {Upper(tables[k].schema) \o "." \o Upper(tables[k].name)}


\* C30: the flags of the Snowflake converter change the emitted text only:
\* the issues of the result (codes, severities, tables, columns, order) are
\* the same for every combination of include_ewi and include_comments, and
\* without include_ewi the EWI count is 0 and the text holds no EWI marker.
C30_FlagsChangeTextOnly ==
    called = "sf_convert"
    => /\ \A c \in BOOLEAN : \A e \in BOOLEAN :
             sf_convert(ddl, c, e).issues = sf_result.issues
       /\ ~include_ewi
             => /\ sf_result.ewi_count = 0
                /\ EwiMarkers(sf_result.iceberg_ddl) = {}

====
